---------------------------- MODULE Spec2Model ----------------------------
(***************************************************************************)
(* Model of the emrys bootstrap engine (github.com/anicolao/emrys):        *)
(*   - the nix-darwin configuration document and its two mutating phases   *)
(*     (internal/bootstrap/phase1.go, phase3.go),                          *)
(*   - the phase runs RunPhase1 / RunPhase3 with the external apply        *)
(*     (internal/nixdarwin/nixdarwin.go),                                  *)
(*   - the package probes of Phase 1,                                      *)
(*   - the polling loop of StartOllamaService (phase2.go).                 *)
(*                                                                         *)
(* The configuration document is a Go string.  It is modelled as a         *)
(* sequence of tokens; a token is a piece of text that is matched or       *)
(* inserted as a whole by the code:                                        *)
(*   close        the closing delimiter "\n}" that strings.Replace looks   *)
(*                for,                                                     *)
(*   pkgs         the literal packagesSection,                             *)
(*   pkgs1        the literal updatedPackagesSection (holds the marker     *)
(*                "# Phase 1 Bootstrap Packages"),                         *)
(*   ssh          text holding "services.openssh" (sshConfig),             *)
(*   autologin    text holding "Auto-login configuration" and a quoted     *)
(*                user name (autoLoginConfig),                             *)
(*   voice        text holding "# Phase 3: Voice Output Configuration",    *)
(*   primaryUser  a line  system.primaryUser = "<u>";                      *)
(*   text         any other text, possibly holding the placeholder.        *)
(* The field u of a token is the user name written in it: "" when there    *)
(* is none, Placeholder for the literal __EMRYS_USERNAME__.                *)
(***************************************************************************)
EXTENDS Integers, Sequences, FiniteSets

VARIABLES
    file,       \* content of ~/.nixpkgs/darwin-configuration.nix
    userEnv,    \* value of the USER environment variable ("" = unset)
    hist,       \* the record of the last document mutation of this process (<<>>
                \* before the first)
    installed,  \* the set of packages exec.LookPath finds
    run,        \* the current phase run (RunPhase1 / RunPhase3)
    world,      \* voice availability and voice.conf existence (Phase 3)
    probe,      \* the last GetMissingPackages / IsPhase1Complete answers
    oll,        \* StartOllamaService: position, counters, service state
    spk,        \* a voice.Speaker: configuration, queue, worker, callers
    clock,      \* the hour time.Now() reports and the last isQuietHours answer
    env,        \* what the state probes look at, and their last answers
    mut,        \* document mutations in flight in concurrent processes
    disk        \* voice.conf, tui.conf and the launch agent plist, and the last
                \* call that creates one of them

vars == <<file, userEnv, hist, installed, run, world, probe, oll, spk,
         clock, env, mut, disk>>

-----------------------------------------------------------------------------
(* Bounds of the model *)

\* Longest initial document, in tokens, of the document specification.
MaxDocLen == 2

\* Speak calls made on one Speaker in the speaker specification.
MaxSpeaks == 3

\* Speak calls made beyond the capacity of the queue in the queue
\* specification.
MaxExtra == 2

-----------------------------------------------------------------------------
(* Tokens and the literal blocks of phase1.go / phase3.go *)

Placeholder == "__EMRYS_USERNAME__"

Tok(k, u) == [k |-> k, u |-> u]

closeBrace == Tok("close", "")

packagesSection == Tok("pkgs", "")

updatedPackagesSection == Tok("pkgs1", "")

sshConfig == Tok("ssh", "")

autoLoginConfig == Tok("autologin", Placeholder)

voiceConfig == Tok("voice", "")

\* The four section markers and the token kinds whose text holds them.
MarkerSSH == "services.openssh"

MarkerAutoLogin == "Auto-login configuration"

MarkerPhase1 == "# Phase 1 Bootstrap Packages"

MarkerPhase3 == "# Phase 3: Voice Output Configuration"

Markers == {MarkerSSH, MarkerAutoLogin, MarkerPhase1, MarkerPhase3}

MarkerOf(k) ==
    CASE k = "ssh" -> {MarkerSSH}
      [] k = "autologin" -> {MarkerAutoLogin}
      [] k = "pkgs1" -> {MarkerPhase1}
      [] k = "voice" -> {MarkerPhase3}
      [] OTHER -> {}

\* strings.Contains(s, marker)
Contains(s, m) == \E i \in 1..Len(s) : m \in MarkerOf(s[i].k)

\* strings.Count(s, marker)
Count(s, m) == Cardinality({i \in 1..Len(s) : m \in MarkerOf(s[i].k)})

\* Index of the first token equal to t, 0 when there is none.
IndexOf(s, t) ==
    IF \E i \in 1..Len(s) : s[i] = t
    THEN CHOOSE i \in 1..Len(s) : s[i] = t /\ \A j \in 1..(i - 1) : s[j] # t
    ELSE 0

\* strings.Replace(s, old, new, 1) for a one-token old and a token sequence new:
\* only the first occurrence is replaced, and s is returned as it is when old
\* does not occur.
ReplaceFirst(s, old, new) ==
    LET i == IndexOf(s, old)
    IN  IF i = 0 THEN s
        ELSE SubSeq(s, 1, i - 1) \o new \o SubSeq(s, i + 1, Len(s))

\* strings.Replace(configStr, "\n}", block+"\n}", 1)
InsertBeforeClose(s, block) == ReplaceFirst(s, closeBrace, <<block, closeBrace>>)

\* strings.Replace(configStr, "__EMRYS_USERNAME__", username, -1)
ReplaceAllPlaceholder(s, username) ==
    [i \in 1..Len(s) |->
        IF s[i].u = Placeholder THEN Tok(s[i].k, username) ELSE s[i]]

\* The loop over the lines of the document: the first line that holds
\* system.primaryUser and at least one double quote gives the name (and ends
\* the loop, also when the name between the quotes is empty).  "NOQUOTE"
\* stands for such a line without a quote.
RECURSIVE ScanPrimaryUser(_, _)
ScanPrimaryUser(s, i) ==
    IF i > Len(s) THEN ""
    ELSE IF s[i].k = "primaryUser" /\ s[i].u # "NOQUOTE" THEN s[i].u
    ELSE ScanPrimaryUser(s, i + 1)

\* filepath.Base(homeDir)
HomeBase == "carol"

\* ResolveUsername with the environment consulted before the document.
ResolveUsername_EnvFirst(s, envUser) ==
    LET fromDoc == ScanPrimaryUser(s, 1)
    IN  IF envUser # "" THEN envUser
        ELSE IF fromDoc # "" THEN fromDoc
        ELSE HomeBase

\* The user name that replaces the placeholder: the document's own
\* declaration, else $USER, else the base name of the home directory.
ResolveUsername(s, envUser) ==
    LET fromDoc == ScanPrimaryUser(s, 1)
    IN  IF fromDoc # "" THEN fromDoc
        ELSE IF envUser # "" THEN envUser
        ELSE HomeBase

-----------------------------------------------------------------------------
(* The document mutations *)

\* Outcomes of the file system during one mutation: everything works, the
\* home directory cannot be determined, the file cannot be read, the file
\* cannot be opened for writing (it keeps its content), or os.WriteFile fails
\* after truncating the file and writing only some of the new content.
IOs == {"ok", "homeErr", "readErr", "openErr", "writeErr"}

\* The in-memory buffer of UpdateNixDarwinConfiguration: configStr and
\* configChanged.
Buffer(s, changed) == [s |-> s, changed |-> changed]

\* EnsureSSH without its strings.Contains guard.
EnsureSSH_NoCheck(b) == Buffer(InsertBeforeClose(b.s, sshConfig), TRUE)

\* if !strings.Contains(configStr, "services.openssh") { ... }
EnsureSSH(b) ==
    IF ~Contains(b.s, MarkerSSH)
    THEN Buffer(InsertBeforeClose(b.s, sshConfig), TRUE)
    ELSE b

\* if !strings.Contains(configStr, "Auto-login configuration") { ... }
EnsureAutoLogin(b) ==
    IF ~Contains(b.s, MarkerAutoLogin)
    THEN Buffer(InsertBeforeClose(b.s, autoLoginConfig), TRUE)
    ELSE b

\* if !strings.Contains(configStr, "# Phase 1 Bootstrap Packages") { ... }
EnsurePackages(b) ==
    IF ~Contains(b.s, MarkerPhase1)
    THEN Buffer(ReplaceFirst(b.s, packagesSection, <<updatedPackagesSection>>), TRUE)
    ELSE b

\* What a mutation returns and leaves behind: the content of the file after
\* it, the error ("" = nil), the message printed, whether os.WriteFile was
\* called, the final in-memory buffer, and whether the insertions altered the
\* buffer.
Outcome(f, err, report, wrote, buf, inserted) ==
    [file |-> f, err |-> err, report |-> report, wrote |-> wrote, buf |-> buf,
     inserted |-> inserted]

\* os.WriteFile(configPath, []byte(configStr), 0644) and the return after it.
\* cut is the number of tokens that reached the file when the write failed.
WriteBack(content, out, io, cut, ins) ==
    CASE io = "openErr"  -> Outcome(content, "write", "error", TRUE, out, ins)
      [] io = "writeErr" -> Outcome(SubSeq(out, 1, cut), "write", "error", TRUE, out, ins)
      [] OTHER           -> Outcome(out, "", "updated", TRUE, out, ins)

\* UpdateNixDarwinConfiguration (phase1.go), on a file holding content.
UpdateNixDarwinConfiguration(content, envUser, io, cut) ==
    IF io = "homeErr" THEN Outcome(content, "home", "error", FALSE, content, FALSE)
    ELSE IF io = "readErr" THEN Outcome(content, "read", "error", FALSE, content, FALSE)
    ELSE LET b == EnsurePackages(EnsureAutoLogin(EnsureSSH(Buffer(content, FALSE))))
         IN  IF ~b.changed
             THEN Outcome(content, "", "already", FALSE, b.s, FALSE)
             ELSE WriteBack(content,
                            ReplaceAllPlaceholder(b.s, ResolveUsername(b.s, envUser)),
                            io, cut, b.s # content)

\* UpdateNixDarwinConfigForVoice (phase3.go), on a file holding content.
UpdateNixDarwinConfigForVoice(content, io, cut) ==
    IF io = "homeErr" THEN Outcome(content, "home", "error", FALSE, content, FALSE)
    ELSE IF io = "readErr" THEN Outcome(content, "read", "error", FALSE, content, FALSE)
    ELSE IF Contains(content, MarkerPhase3)
         THEN Outcome(content, "", "already", FALSE, content, FALSE)
         ELSE LET out == InsertBeforeClose(content, voiceConfig)
              IN  WriteBack(content, out, io, cut, out # content)

\* The mutation of phase p.
Mutation(p, content, envUser, io, cut) ==
    IF p = 1 THEN UpdateNixDarwinConfiguration(content, envUser, io, cut)
    ELSE UpdateNixDarwinConfigForVoice(content, io, cut)

\* The lengths a failed write can leave in the file: any prefix of the
\* buffer being written.
Cuts(io, buf) == IF io = "writeErr" THEN 0..Len(buf) ELSE {0}

\* What the history keeps of one mutation: the phase, the error returned, the
\* message printed, whether os.WriteFile was called, whether a section was
\* inserted into the buffer (the buffer differed from the content read before
\* the placeholder was substituted), whether the final buffer equalled the
\* content read, whether the file ended up with the content it had, and the
\* phase of the mutation that ran immediately before this one (0 when there
\* was none) and whether that one returned nil.
Record(p, before, o, h) ==
    [phase |-> p, err |-> o.err, report |-> o.report, wrote |-> o.wrote,
     inserted |-> o.inserted, bufSame |-> (o.buf = before),
     fileSame |-> (o.file = before),
     prevPhase |-> IF h = <<>> THEN 0 ELSE h[1].phase,
     prevOk |-> IF h = <<>> THEN FALSE ELSE h[1].err = ""]

\* One call of the mutation of phase p against the file.
Mutate(p) ==
    \E io \in IOs :
        \E cut \in Cuts(io, Mutation(p, file, userEnv, "ok", 0).buf) :
            LET o == Mutation(p, file, userEnv, io, cut)
            IN  /\ file' = o.file
                /\ hist' = <<Record(p, file, o, hist)>>

-----------------------------------------------------------------------------
(* Rest states of the parts a specification does not exercise *)

\* No run in progress.  A run keeps: its phase, its position, the steps it has
\* executed, the error it returns ("" = nil), the banner it has printed, the
\* packages its verification error names, the answer of its first probe, the
\* exit status of its external apply (-1 = not run), the packages its last
\* verification found on the PATH, how the speech of its voice test went
\* ("" = no voice test), what its external apply wrote to the terminal, and
\* the command output that the error of its apply step carries.
RunIdle == [phase |-> 0, pc |-> "idle", trace |-> <<>>, err |-> "",
            report |-> "", named |-> <<>>, satisfied |-> FALSE,
            exit |-> -1, seen |-> {}, speech |-> "",
            printed |-> "", attached |-> ""]

WorldInit == [voice |-> FALSE, conf |-> FALSE]

\* No probe call yet: the order in which the environment last settled each
\* package, whether the probes were called, what GetMissingPackages and
\* IsPhase1Complete returned, and the installed set they were called on.
ProbeIdle == [order |-> <<>>, called |-> FALSE, missing |-> <<>>,
              complete |-> FALSE, at |-> {}]

\* StartOllamaService not called: position, loop counter i, sleeps and probes
\* of the loop, positive probes of the loop, whether the Ollama API answers
\* 200, and what the call returned.
OllIdle == [pc |-> "idle", i |-> 0, sleeps |-> 0, probes |-> 0, hits |-> 0,
            up |-> FALSE, result |-> ""]

\* make(chan string, 100): the capacity of a Speaker's queue.
QueueCapacity == 100

\* The fields of voice.Config that decide control flow (Voice, Rate and Volume
\* only shape the arguments of the say command).
DefaultConfig ==
    [Enabled |-> TRUE, QuietHours |-> FALSE, QuietStart |-> 22, QuietEnd |-> 7]

\* The goroutines that hold the Speaker and may call Close.
Callers == {"main", "other"}

\* The goroutines that read the configuration: the callers, and the worker
\* inside speakNow.
Readers == Callers \cup {"worker"}

\* A goroutine outside every configuration method: its position, the method
\* it is in, the configuration it passed, the configuration it has copied so
\* far, and the configuration of the Speaker when it took the lock.
OpIdle == [pc |-> "idle", op |-> "", arg |-> <<>>, got |-> <<>>, at |-> <<>>]

\* The Speaker NewSpeaker returns.  Messages are named by the number of the
\* Speak call that carried them.
\*   queue    the buffered channel, oldest message first
\*   calls    Speak calls so far
\*   dropped  messages Speak dropped on a full queue
\*   worker   processQueue: "select", "speaking" (inside speakNow), "stopped"
\*   handled  messages the worker received from the queue, in order
\*   log      what the worker did with them: start and then end or fail (the
\*            say command returned nil, or an error), or skip (quiet hours)
\*   stop     whether the stop channel is closed; stops counts close(stop),
\*            2 standing for the panic of a second close
\*   once     closeOnce: "fresh", "running" (inside Do), "done"
\*   closers  each caller's position in Close
\*   calledAt Speak calls so far when Close was first called (-1 before, and
\*            where it is not noted)
\*   sync     the caller of SpeakSync: its position, what its last call
\*            returned, whether that call ran the say command, and what the
\*            say command returned
\*   mu       the RWMutex: the goroutine holding the write lock ("" = none)
\*            and the goroutines holding a read lock
\*   ops      each goroutine's position in a configuration method
\*   given    the configurations passed to NewSpeaker and UpdateConfig
\*   disabledAt  Speak calls and received messages so far when Disable was
\*            last called (-1 before)
\*   busyAt   the message the worker was announcing when Close was first
\*            called, 0 if none (-1 before, and where it is not noted)
NewSpeaker(config) ==
    [config |-> config, queue |-> <<>>, calls |-> 0, dropped |-> {},
     worker |-> "select", handled |-> <<>>, log |-> <<>>,
     stop |-> FALSE, stops |-> 0, once |-> "fresh",
     closers |-> [c \in Callers |-> "idle"],
     calledAt |-> -1,
     sync |-> [pc |-> "idle", result |-> "", ran |-> FALSE, say |-> ""],
     mu |-> [w |-> "", r |-> {}],
     ops |-> [c \in Readers |-> OpIdle],
     given |-> {config},
     disabledAt |-> [calls |-> -1, handled |-> -1],
     busyAt |-> -1]

SpkIdle == NewSpeaker(DefaultConfig)

\* The hours of the day, as time.Now().Hour() reports them.
Hours == 0..23

\* No isQuietHours call yet: the current hour, whether isQuietHours was
\* called, with what bounds, at what hour and with what answer.
ClockIdle == [hour |-> 0, asked |-> FALSE, start |-> 0, end |-> 0, at |-> 0,
              quiet |-> FALSE]

\* What the state probes look at, and their answers once they were called:
\*   http       GET http://localhost:11434: "refused" (no answer), or the
\*              status, "200" or "500"
\*   list       ollama list: "fail", or whether its output names the model
\*   say        say -v ?: "fail", or whether its output lists Jamie
\*   home       os.UserHomeDir: "ok" or "err"
\*   voiceConf, tuiBin, tuiConf   os.Stat of voice.conf, emrys-tui and
\*              tui.conf: "ok", "missing", or "denied" (an error other than
\*              not-exist)
EnvIdle == [http |-> "refused", list |-> "fail", say |-> "fail",
            home |-> "ok", voiceConf |-> "missing", tuiBin |-> "missing",
            tuiConf |-> "missing", called |-> FALSE, answers |-> <<>>]

\* The processes of the concurrent specification, named by the phase whose
\* mutation they run.
Procs == {1, 3}

\* No mutation in flight.  Each process keeps: its position, the content it
\* read, the error it returned ("" = nil), whether the buffer it wrote held
\* the section it inserted, and the position of the other process when it
\* read the file.
MutIdle == [p \in Procs |-> [pc |-> "idle", content |-> <<>>, err |-> "",
                             inserted |-> FALSE, during |-> "idle"]]

\* The three files that are created unless they exist ("" = the file does
\* not exist), and no call yet: the function last called, the error it
\* returned, the content of its file before the call, and whether it called
\* os.WriteFile.
Targets == {"voice.conf", "tui.conf", "plist"}

DiskIdle == [text |-> [t \in Targets |-> ""],
             last |-> [fn |-> "", err |-> "", before |-> "", wrote |-> FALSE]]

-----------------------------------------------------------------------------
(* The document specification: any document, any sequence of mutations *)

\* The tokens an initial document is made of.
Alphabet ==
    {closeBrace, packagesSection, updatedPackagesSection, sshConfig,
     autoLoginConfig, voiceConfig,
     Tok("primaryUser", "alice"), Tok("primaryUser", Placeholder),
     Tok("primaryUser", "")}

\* All documents of at most n tokens.
Docs(n) == UNION {[1..k -> Alphabet] : k \in 0..n}

DocInit ==
    /\ file \in Docs(MaxDocLen)
    /\ userEnv \in {"", "bob"}
    /\ hist = <<>>
    /\ installed = {}
    /\ run = RunIdle
    /\ world = WorldInit
    /\ probe = ProbeIdle
    /\ oll = OllIdle
    /\ clock = ClockIdle
    /\ env = EnvIdle
    /\ mut = MutIdle
    /\ disk = DiskIdle
    /\ spk = SpkIdle

\* A caller (a test, a phase run) calls UpdateNixDarwinConfiguration.
CallUpdateNixDarwinConfiguration ==
    /\ Mutate(1)
    /\ UNCHANGED <<userEnv, installed, run, world, probe, oll, spk, clock, env,
                   mut, disk>>

\* A caller calls UpdateNixDarwinConfigForVoice.
CallUpdateNixDarwinConfigForVoice ==
    /\ Mutate(3)
    /\ UNCHANGED <<userEnv, installed, run, world, probe, oll, spk, clock, env,
                   mut, disk>>

DocNext == CallUpdateNixDarwinConfiguration \/ CallUpdateNixDarwinConfigForVoice

DocSpec == DocInit /\ [][DocNext]_vars

-----------------------------------------------------------------------------
(* Phase 1 probes *)

Phase1Packages == <<"ollama", "tmux", "go", "jq">>

PackageSet == {Phase1Packages[i] : i \in 1..Len(Phase1Packages)}

\* exec.LookPath(packageName) succeeds
isPackageInstalled(inst, pkg) == pkg \in inst

\* The loop of IsPhase1Complete from package i on: false at the first package
\* that is not installed.
RECURSIVE IsPhase1CompleteFrom(_, _)
IsPhase1CompleteFrom(inst, i) ==
    IF i > Len(Phase1Packages) THEN TRUE
    ELSE IF ~isPackageInstalled(inst, Phase1Packages[i]) THEN FALSE
    ELSE IsPhase1CompleteFrom(inst, i + 1)

IsPhase1Complete(inst) == IsPhase1CompleteFrom(inst, 1)

\* The loop of GetMissingPackages from package i on, missing being the slice
\* built so far.
RECURSIVE GetMissingFrom(_, _, _)
GetMissingFrom(inst, i, missing) ==
    IF i > Len(Phase1Packages) THEN missing
    ELSE IF ~isPackageInstalled(inst, Phase1Packages[i])
         THEN GetMissingFrom(inst, i + 1, Append(missing, Phase1Packages[i]))
         ELSE GetMissingFrom(inst, i + 1, missing)

\* GetMissingPackages building its slice back to front.
GetMissingPackages_Reversed(inst) ==
    LET m == GetMissingFrom(inst, 1, <<>>)
    IN  [i \in 1..Len(m) |-> m[Len(m) + 1 - i]]

GetMissingPackages(inst) == GetMissingFrom(inst, 1, <<>>)

\* VerifyPackageInstallation reporting only the first missing package.
VerifyPackageInstallation_FirstOnly(inst) ==
    LET missing == GetMissingPackages(inst)
    IN  IF Len(missing) > 0
        THEN [err |-> "verify", named |-> <<missing[1]>>]
        ELSE [err |-> "", named |-> <<>>]

\* VerifyPackageInstallation: the error ("" = nil) and the packages the error
\* message names.
VerifyPackageInstallation(inst) ==
    LET missing == GetMissingPackages(inst)
    IN  IF Len(missing) > 0
        THEN [err |-> "verify", named |-> missing]
        ELSE [err |-> "", named |-> <<>>]

-----------------------------------------------------------------------------
(* The phase runs RunPhase1 and RunPhase3 *)

\* The embedded default document (config/darwin-configuration.nix): its
\* primaryUser line still holds the placeholder.
DefaultNixDarwinConfig ==
    <<Tok("text", ""), Tok("primaryUser", Placeholder), packagesSection,
      Tok("text", ""), closeBrace>>

\* The document of TestUpdateNixDarwinConfiguration.
testConfig ==
    <<Tok("text", ""), Tok("primaryUser", "testuser"), packagesSection,
      Tok("text", ""), closeBrace>>

\* A document the operator has edited: the package list no longer matches
\* packagesSection literally.
editedConfig == <<Tok("text", ""), closeBrace>>

InitialDocuments == {DefaultNixDarwinConfig, testConfig, editedConfig}

\* One step of a run, and whether it returned without an error.
Step(name, ok) == [step |-> name, ok |-> ok]

\* AfterProbe without the early return of a satisfied probe.
AfterProbe_Ignore(p, complete) == "mutate"

\* if IsPhase1Complete() { ... return } / if IsPhase3Complete() { ... return }
AfterProbe(p, complete) ==
    IF complete THEN (IF p = 1 THEN "verifyOnly" ELSE "testOnly") ELSE "mutate"

\* AfterMutate with the error of the mutation dropped.
AfterMutate_Continue(err) == "apply"

\* if err := UpdateNixDarwinConfiguration(); err != nil { return ... }
AfterMutate(err) == IF err # "" THEN "done" ELSE "apply"

\* ApplyConfiguration with the error of cmd.Run() swallowed.
ApplyConfiguration_Swallow(exit) == ""

\* nixdarwin.ApplyConfiguration: cmd.Run() returns an error for every exit
\* status other than 0.
ApplyConfiguration(exit) == IF exit # 0 THEN "apply" ELSE ""

\* if err := nixdarwin.ApplyConfiguration(); err != nil { return ... }
AfterApply(p, err) ==
    IF err # "" THEN "done" ELSE IF p = 1 THEN "verify" ELSE "install"

\* Exit statuses of the external apply command.
ExitCodes == {0, 1}

\* What the external apply command writes to its stdout and stderr.
Outputs == {"", "build log"}

\* The command output carried by the error of ApplyConfiguration: cmd.Stdout
\* and cmd.Stderr are os.Stdout and os.Stderr, so cmd.Run() captures nothing
\* and the error wraps the exit status only.
CapturedOutput(output) == ""

\* IsPhase3Complete: the Jamie voice is available and voice.conf exists.
IsPhase3Complete(w) == w.voice /\ w.conf

\* The error a run returns for a failed step ("" = nil).
ErrOf(name, ok) == IF ok THEN "" ELSE name

\* RunPhase1, from its start to the first probe.
RunPhase1_Probe ==
    /\ run.pc = "idle"
    /\ LET c == IsPhase1Complete(installed)
       IN  run' = [RunIdle EXCEPT !.phase = 1, !.pc = AfterProbe(1, c),
                                  !.trace = <<Step("probe", TRUE)>>,
                                  !.satisfied = c,
                                  !.report = IF c THEN "AlreadyComplete" ELSE ""]
    /\ UNCHANGED <<file, userEnv, hist, installed, world, probe, oll, spk, clock, env,
                   mut, disk>>

\* RunPhase3, from its start to the first probe.
RunPhase3_Probe ==
    /\ run.pc = "idle"
    /\ LET c == IsPhase3Complete(world)
       IN  run' = [RunIdle EXCEPT !.phase = 3, !.pc = AfterProbe(3, c),
                                  !.trace = <<Step("probe", TRUE)>>,
                                  !.satisfied = c,
                                  !.report = IF c THEN "AlreadyComplete" ELSE ""]
    /\ UNCHANGED <<file, userEnv, hist, installed, world, probe, oll, spk, clock, env,
                   mut, disk>>

\* Step 1 of either run: the document mutation of the phase.
RunPhase_Mutate ==
    /\ run.pc = "mutate"
    /\ Mutate(run.phase)
    /\ run' = [run EXCEPT !.pc = AfterMutate(hist'[1].err),
                          !.trace = Append(@, Step("mutate", hist'[1].err = "")),
                          !.err = ErrOf("update", hist'[1].err = "")]
    /\ UNCHANGED <<userEnv, installed, world, probe, oll, spk, clock, env,
                   mut, disk>>

\* Step 2 of either run: darwin-rebuild switch.  A successful rebuild may
\* put any of the packages on the PATH.
RunPhase_Apply ==
    /\ run.pc = "apply"
    /\ \E exit \in ExitCodes, output \in Outputs :
          LET err == ApplyConfiguration(exit)
          IN  /\ run' = [run EXCEPT !.pc = AfterApply(run.phase, err),
                                    !.trace = Append(@, Step("apply", err = "")),
                                    !.err = ErrOf("apply", err = ""),
                                    !.exit = exit,
                                    !.printed = output,
                                    !.attached = IF err # ""
                                                 THEN CapturedOutput(output)
                                                 ELSE ""]
              /\ IF exit = 0
                 THEN \E more \in SUBSET PackageSet : installed' = installed \cup more
                 ELSE installed' = installed
    /\ UNCHANGED <<file, userEnv, hist, world, probe, oll, spk, clock, env,
                   mut, disk>>

\* Step 3 of RunPhase1, and the verification on its already-complete path.
RunPhase1_Verify ==
    /\ run.pc \in {"verify", "verifyOnly"}
    /\ LET v == VerifyPackageInstallation(installed)
       IN  run' = [run EXCEPT !.pc = "done",
                              !.trace = Append(@, Step("verify", v.err = "")),
                              !.err = v.err,
                              !.named = v.named,
                              !.seen = installed,
                              !.report = IF v.err = "" /\ run.pc = "verify"
                                         THEN "Complete" ELSE @]
    /\ UNCHANGED <<file, userEnv, hist, installed, world, probe, oll, spk, clock, env,
                   mut, disk>>

\* Step 3 of RunPhase3: InstallJamieVoice.  When the voice is missing the
\* user is asked to install it and to confirm; the voice is then probed again.
RunPhase3_InstallJamieVoice ==
    /\ run.pc = "install"
    /\ \E confirm \in BOOLEAN, got \in BOOLEAN :
          LET ok == world.voice \/ (confirm /\ got)
          IN  /\ world' = [world EXCEPT !.voice = @ \/ got]
              /\ run' = [run EXCEPT !.pc = IF ok THEN "list" ELSE "done",
                                    !.trace = Append(@, Step("install", ok)),
                                    !.err = ErrOf("install", ok)]
    /\ UNCHANGED <<file, userEnv, hist, installed, probe, oll, spk, clock, env,
                   mut, disk>>

\* Step 4 of RunPhase3: ListAvailableVoices (say -v ? may fail).
RunPhase3_ListAvailableVoices ==
    /\ run.pc = "list"
    /\ \E ok \in BOOLEAN :
          run' = [run EXCEPT !.pc = IF ok THEN "config" ELSE "done",
                             !.trace = Append(@, Step("list", ok)),
                             !.err = ErrOf("list", ok)]
    /\ UNCHANGED <<file, userEnv, hist, installed, world, probe, oll, spk, clock, env,
                   mut, disk>>

\* Step 5 of RunPhase3: CreateVoiceConfig creates voice.conf unless it exists.
RunPhase3_CreateVoiceConfig ==
    /\ run.pc = "config"
    /\ \E io \in {"ok", "mkdirErr", "writeErr"} :
          LET ok == io = "ok" \/ (io = "writeErr" /\ world.conf)
          IN  /\ world' = [world EXCEPT !.conf = @ \/ io = "ok"]
              /\ run' = [run EXCEPT !.pc = IF ok THEN "test" ELSE "done",
                                    !.trace = Append(@, Step("config", ok)),
                                    !.err = ErrOf("config", ok)]
    /\ UNCHANGED <<file, userEnv, hist, installed, probe, oll, spk, clock, env,
                   mut, disk>>

\* TestVoiceOutput: voice.Test runs the say command, then a new Speaker
\* speaks the test message with SpeakSync; the error of either is returned.
\* test and say are what the two say commands return.
TestVoiceOutput(test, say) ==
    IF test # "nil" THEN "testFailed"
    ELSE IF say # "nil" THEN "speakFailed"
    ELSE "ok"

\* Step 6 of RunPhase3, and the voice test on its already-complete path,
\* where a failure is only a warning.
RunPhase3_TestVoiceOutput ==
    /\ run.pc \in {"test", "testOnly"}
    /\ \E test \in {"nil", "err"}, say \in {"nil", "err"} :
          LET speech == TestVoiceOutput(test, say)
              ok == speech = "ok"
          IN  run' = [run EXCEPT
                        !.pc = "done",
                        !.trace = Append(@, Step("test", ok)),
                        !.err = IF run.pc = "test" THEN ErrOf("test", ok) ELSE "",
                        !.report = IF ok /\ run.pc = "test" THEN "Complete" ELSE @,
                        !.speech = speech]
    /\ UNCHANGED <<file, userEnv, hist, installed, world, probe, oll, spk, clock, env,
                   mut, disk>>

\* The run has returned and its process exits; the operator may start another
\* one, which knows nothing of the mutation of this one.
Return ==
    /\ run.pc = "done"
    /\ run' = RunIdle
    /\ hist' = <<>>
    /\ UNCHANGED <<file, userEnv, installed, world, probe, oll, spk, clock, env,
                   mut, disk>>

\* The environment: a package disappears from the PATH.
Uninstall ==
    /\ \E pkg \in installed : installed' = installed \ {pkg}
    /\ UNCHANGED <<file, userEnv, hist, run, world, probe, oll, spk, clock, env,
                   mut, disk>>

Init ==
    /\ file \in InitialDocuments
    /\ userEnv = "bob"
    /\ hist = <<>>
    /\ installed = {}
    /\ run = RunIdle
    /\ world \in {[voice |-> v, conf |-> FALSE] : v \in BOOLEAN}
    /\ probe = ProbeIdle
    /\ oll = OllIdle
    /\ clock = ClockIdle
    /\ env = EnvIdle
    /\ mut = MutIdle
    /\ disk = DiskIdle
    /\ spk = SpkIdle

Next ==
    \/ RunPhase1_Probe
    \/ RunPhase3_Probe
    \/ RunPhase_Mutate
    \/ RunPhase_Apply
    \/ RunPhase1_Verify
    \/ RunPhase3_InstallJamieVoice
    \/ RunPhase3_ListAvailableVoices
    \/ RunPhase3_CreateVoiceConfig
    \/ RunPhase3_TestVoiceOutput
    \/ Return
    \/ Uninstall

Spec == Init /\ [][Next]_vars

-----------------------------------------------------------------------------
(* The concurrent specification: two processes mutate the same document *)

OthersOfMut == <<userEnv, hist, installed, run, world, probe, oll, spk, clock,
                env, disk>>

\* MayRead with a lock on the document held from the read to the write.
MayRead_Locked(p, m) == \A q \in Procs \ {p} : m[q].pc # "read"

\* Whether process p may read the document now: the mutations open the file
\* with os.ReadFile and take no lock, whatever the other process is doing.
MayRead(p, m) == TRUE

\* content, err := os.ReadFile(configPath) in process p.
ReadFile(p) ==
    /\ mut[p].pc = "idle"
    /\ MayRead(p, mut)
    /\ \E io \in {"ok", "readErr"} :
          mut' = [mut EXCEPT ![p] =
                    IF io = "ok"
                    THEN [pc |-> "read", content |-> file, err |-> "",
                          inserted |-> FALSE,
                          during |-> mut[CHOOSE q \in Procs : q # p].pc]
                    ELSE [pc |-> "done", content |-> <<>>, err |-> "read",
                          inserted |-> FALSE,
                          during |-> mut[CHOOSE q \in Procs : q # p].pc]]
    /\ UNCHANGED <<file, OthersOfMut>>

\* The rest of the mutation in process p: the sections are inserted into the
\* content that was read, and the buffer is written over the file as it is
\* now.
WriteFile(p) ==
    /\ mut[p].pc = "read"
    /\ \E io \in {"ok", "openErr", "writeErr"} :
        \E cut \in Cuts(io, Mutation(p, mut[p].content, userEnv, "ok", 0).buf) :
            LET o == Mutation(p, mut[p].content, userEnv, io, cut)
            IN  /\ file' = IF o.wrote /\ io # "openErr" THEN o.file ELSE file
                /\ mut' = [mut EXCEPT ![p].pc = "done",
                                      ![p].err = o.err,
                                      ![p].inserted = o.inserted]
    /\ UNCHANGED OthersOfMut

\* The process of p has exited; the operator starts the controller again.
Again(p) ==
    /\ mut[p].pc = "done"
    /\ mut' = [mut EXCEPT ![p] = MutIdle[p]]
    /\ UNCHANGED <<file, OthersOfMut>>

RaceInit ==
    /\ file \in InitialDocuments
    /\ userEnv = "bob"
    /\ hist = <<>>
    /\ installed = {}
    /\ run = RunIdle
    /\ world = WorldInit
    /\ probe = ProbeIdle
    /\ oll = OllIdle
    /\ clock = ClockIdle
    /\ env = EnvIdle
    /\ spk = SpkIdle
    /\ mut = MutIdle
    /\ disk = DiskIdle

RaceNext == \E p \in Procs : ReadFile(p) \/ WriteFile(p) \/ Again(p)

RaceSpec == RaceInit /\ [][RaceNext]_vars

-----------------------------------------------------------------------------
(* The probe specification: the PATH changes, the probes are called *)

\* s without the element x.
Without(s, x) == SelectSeq(s, LAMBDA y : y # x)

\* The environment puts a package on the PATH.
Install ==
    /\ \E pkg \in PackageSet \ installed :
          /\ installed' = installed \cup {pkg}
          /\ probe' = [probe EXCEPT !.order = Append(Without(@, pkg), pkg)]
    /\ UNCHANGED <<file, userEnv, hist, run, world, oll, spk, clock, env,
                   mut, disk>>

\* The environment takes a package off the PATH.
Remove ==
    /\ \E pkg \in installed :
          /\ installed' = installed \ {pkg}
          /\ probe' = [probe EXCEPT !.order = Append(Without(@, pkg), pkg)]
    /\ UNCHANGED <<file, userEnv, hist, run, world, oll, spk, clock, env,
                   mut, disk>>

\* IsPhase1Complete() and GetMissingPackages() are called on the PATH as it is
\* (RunPhase1 calls one after the other).
CallProbes ==
    /\ probe' = [probe EXCEPT !.called = TRUE,
                              !.missing = GetMissingPackages(installed),
                              !.complete = IsPhase1Complete(installed),
                              !.at = installed]
    /\ UNCHANGED <<file, userEnv, hist, installed, run, world, oll, spk, clock, env,
                   mut, disk>>

ProbeInit ==
    /\ file = DefaultNixDarwinConfig
    /\ userEnv = "bob"
    /\ hist = <<>>
    /\ installed = {}
    /\ run = RunIdle
    /\ world = WorldInit
    /\ probe = ProbeIdle
    /\ oll = OllIdle
    /\ clock = ClockIdle
    /\ env = EnvIdle
    /\ mut = MutIdle
    /\ disk = DiskIdle
    /\ spk = SpkIdle

ProbeNext == Install \/ Remove \/ CallProbes

ProbeSpec == ProbeInit /\ [][ProbeNext]_vars

-----------------------------------------------------------------------------
(* The probe specification of the environment: every state probe, in every
   environment *)

\* resp, err := client.Get(OllamaAPIURL): err is nil and the status is 200.
GetAnswers200(http) == http # "refused" /\ http = "200"

\* IsModelInstalled taking a failed list command for a listed model.
IsModelInstalled_Optimistic(list) == list # "hasnot"

\* IsModelInstalled: false when ollama list fails, else whether its output
\* contains the name of the model.
IsModelInstalled(list) == list # "fail" /\ list = "has"

\* IsVoiceAvailable: false when say -v ? fails, else whether a line of its
\* output starts with the name of the voice.
IsVoiceAvailable(say) == say # "fail" /\ say = "jamie"

\* _, err := os.Stat(path); !os.IsNotExist(err)
Exists(stat) == stat # "missing"

\* IsPhase2Complete: the service answers and the default model is listed.
IsPhase2Complete(http, list) ==
    IF ~GetAnswers200(http) THEN FALSE
    ELSE IF ~IsModelInstalled(list) THEN FALSE
    ELSE TRUE

\* IsPhase4Complete: the home directory is known, and the TUI binary and the
\* TUI configuration exist.
IsPhase4Complete(home, tuiBin, tuiConf) ==
    IF home = "err" THEN FALSE
    ELSE IF ~Exists(tuiBin) THEN FALSE
    ELSE IF ~Exists(tuiConf) THEN FALSE
    ELSE TRUE

\* What the probes look at.
Inputs(e) == [http |-> e.http, list |-> e.list, say |-> e.say, home |-> e.home,
              voiceConf |-> e.voiceConf, tuiBin |-> e.tuiBin,
              tuiConf |-> e.tuiConf]

\* A caller calls every state probe on the environment as it is.
CallStateProbes ==
    /\ env' = [env EXCEPT
                 !.called = TRUE,
                 !.answers =
                    [pkg |-> [p \in PackageSet |-> isPackageInstalled(installed, p)],
                     running |-> GetAnswers200(env.http),
                     model |-> IsModelInstalled(env.list),
                     voice |-> IsVoiceAvailable(env.say),
                     p1 |-> IsPhase1Complete(installed),
                     p2 |-> IsPhase2Complete(env.http, env.list),
                     p3 |-> IsPhase3Complete([voice |-> IsVoiceAvailable(env.say),
                                              conf |-> Exists(env.voiceConf)]),
                     p4 |-> IsPhase4Complete(env.home, env.tuiBin, env.tuiConf)]]
    /\ UNCHANGED <<file, userEnv, hist, installed, run, world, probe, oll, spk, clock,
                   mut, disk>>

\* The caller drops the answers.
ForgetAnswers ==
    /\ env.called
    /\ env' = [env EXCEPT !.called = FALSE, !.answers = <<>>]
    /\ UNCHANGED <<file, userEnv, hist, installed, run, world, probe, oll, spk, clock,
                   mut, disk>>

Stats == {"ok", "missing", "denied"}

EnvInit ==
    /\ file = DefaultNixDarwinConfig
    /\ userEnv = "bob"
    /\ hist = <<>>
    /\ installed \in SUBSET PackageSet
    /\ run = RunIdle
    /\ world = WorldInit
    /\ probe = ProbeIdle
    /\ oll = OllIdle
    /\ clock = ClockIdle
    /\ spk = SpkIdle
    /\ mut = MutIdle
    /\ disk = DiskIdle
    /\ \E http \in {"refused", "200", "500"}, list \in {"fail", "has", "hasnot"},
          say \in {"fail", "jamie", "nojamie"}, home \in {"ok", "err"},
          voiceConf \in Stats, tuiBin \in Stats, tuiConf \in Stats :
            env = [http |-> http, list |-> list, say |-> say, home |-> home,
                   voiceConf |-> voiceConf, tuiBin |-> tuiBin,
                   tuiConf |-> tuiConf, called |-> FALSE, answers |-> <<>>]

EnvNext == CallStateProbes \/ ForgetAnswers

EnvSpec == EnvInit /\ [][EnvNext]_vars

-----------------------------------------------------------------------------
(* The phase specification: the four phase runs, one invocation at a time *)

\* AfterLast chaining a finished Phase 2 run into the steps of Phase 3.
AfterLast_Chain(p, ok) == IF ok /\ p = 2 THEN "install" ELSE "done"

\* The end of a Run function: return nil, or the error of its last step.
AfterLast(p, ok) == "done"

\* RunPhase2, from its start to the first probe.
RunPhase2_Probe ==
    /\ run.pc = "idle"
    /\ LET c == IsPhase2Complete(env.http, env.list)
       IN  run' = [RunIdle EXCEPT !.phase = 2,
                                  !.pc = IF c THEN "done" ELSE "start",
                                  !.trace = <<Step("probe", TRUE)>>,
                                  !.satisfied = c,
                                  !.report = IF c THEN "AlreadyComplete" ELSE ""]
    /\ UNCHANGED <<file, userEnv, hist, installed, world, probe, oll, spk, clock, env,
                   mut, disk>>

\* Step 1 of RunPhase2: StartOllamaService.  Nothing to do when the service
\* answers; else the launch agent is created and loaded and the service is
\* polled, which can fail at each point.
RunPhase2_StartOllamaService ==
    /\ run.pc = "start"
    /\ \E outcome \in IF GetAnswers200(env.http) THEN {"up"}
                       ELSE {"agentErr", "loadErr", "timeout", "up"} :
          LET ok == outcome = "up"
          IN  /\ env' = [env EXCEPT !.http = IF ok THEN "200" ELSE @]
              /\ run' = [run EXCEPT !.pc = IF ok THEN "api" ELSE "done",
                                    !.trace = Append(@, Step("start", ok)),
                                    !.err = ErrOf("start", ok)]
    /\ UNCHANGED <<file, userEnv, hist, installed, world, probe, oll, spk, clock,
                   mut, disk>>

\* Step 2 of RunPhase2: TestOllamaAPI (GET / and GET /api/tags).
RunPhase2_TestOllamaAPI ==
    /\ run.pc = "api"
    /\ \E tags \in BOOLEAN :
          LET ok == GetAnswers200(env.http) /\ tags
          IN  run' = [run EXCEPT !.pc = IF ok THEN "download" ELSE "done",
                                 !.trace = Append(@, Step("api", ok)),
                                 !.err = ErrOf("api", ok)]
    /\ UNCHANGED <<file, userEnv, hist, installed, world, probe, oll, spk, clock, env,
                   mut, disk>>

\* Step 3 of RunPhase2: DownloadModel unless the model is installed; the
\* pull can fail, and the model is looked up again after it.
RunPhase2_DownloadModel ==
    /\ run.pc = "download"
    /\ \E pull \in IF IsModelInstalled(env.list) THEN {"skip"}
                    ELSE {"fail", "listed", "notListed"} :
          LET ok == pull \in {"skip", "listed"}
          IN  /\ env' = [env EXCEPT !.list = CASE pull = "listed" -> "has"
                                                [] pull = "notListed" -> "hasnot"
                                                [] OTHER -> @]
              /\ run' = [run EXCEPT !.pc = IF ok THEN "verifyModel" ELSE "done",
                                    !.trace = Append(@, Step("download", ok)),
                                    !.err = ErrOf("download", ok)]
    /\ UNCHANGED <<file, userEnv, hist, installed, world, probe, oll, spk, clock,
                   mut, disk>>

\* Step 4 of RunPhase2: VerifyModelIntegrity (POST /api/generate).
RunPhase2_VerifyModelIntegrity ==
    /\ run.pc = "verifyModel"
    /\ \E ok \in BOOLEAN :
          run' = [run EXCEPT !.pc = AfterLast(2, ok),
                             !.trace = Append(@, Step("verifyModel", ok)),
                             !.err = ErrOf("verifyModel", ok),
                             !.report = IF ok THEN "Complete" ELSE @]
    /\ UNCHANGED <<file, userEnv, hist, installed, world, probe, oll, spk, clock, env,
                   mut, disk>>

\* RunPhase4, from its start to the first probe.
RunPhase4_Probe ==
    /\ run.pc = "idle"
    /\ LET c == IsPhase4Complete(env.home, env.tuiBin, env.tuiConf)
       IN  run' = [RunIdle EXCEPT !.phase = 4,
                                  !.pc = IF c THEN "componentsOnly" ELSE "tuiConfig",
                                  !.trace = <<Step("probe", TRUE)>>,
                                  !.satisfied = c,
                                  !.report = IF c THEN "AlreadyComplete" ELSE ""]
    /\ UNCHANGED <<file, userEnv, hist, installed, world, probe, oll, spk, clock, env,
                   mut, disk>>

\* Step 1 of RunPhase4: CreateTUIConfig creates tui.conf unless os.Stat
\* finds it.
RunPhase4_CreateTUIConfig ==
    /\ run.pc = "tuiConfig"
    /\ \E io \in {"ok", "mkdirErr", "writeErr"} :
          LET found == env.tuiConf = "ok"
              ok == io = "ok" \/ (io = "writeErr" /\ found)
          IN  /\ env' = [env EXCEPT !.tuiConf = IF io = "ok" THEN "ok" ELSE @]
              /\ run' = [run EXCEPT !.pc = IF ok THEN "build" ELSE "done",
                                    !.trace = Append(@, Step("tuiConfig", ok)),
                                    !.err = ErrOf("tuiConfig", ok)]
    /\ UNCHANGED <<file, userEnv, hist, installed, world, probe, oll, spk, clock,
                   mut, disk>>

\* Step 2 of RunPhase4: BuildTUIBinary writes the launcher script or builds
\* the binary into ~/.local/bin.
RunPhase4_BuildTUIBinary ==
    /\ run.pc = "build"
    /\ \E io \in IF env.home = "err" THEN {"homeErr"} ELSE {"ok", "buildErr"} :
          LET ok == io = "ok"
          IN  /\ env' = [env EXCEPT !.tuiBin = IF ok THEN "ok" ELSE @]
              /\ run' = [run EXCEPT !.pc = IF ok THEN "testTUI" ELSE "done",
                                    !.trace = Append(@, Step("build", ok)),
                                    !.err = ErrOf("build", ok)]
    /\ UNCHANGED <<file, userEnv, hist, installed, world, probe, oll, spk, clock,
                   mut, disk>>

\* Step 3 of RunPhase4: TestTUI initialises and renders the TUI model.
RunPhase4_TestTUI ==
    /\ run.pc = "testTUI"
    /\ \E ok \in BOOLEAN :
          run' = [run EXCEPT !.pc = IF ok THEN "components" ELSE "done",
                             !.trace = Append(@, Step("testTUI", ok)),
                             !.err = ErrOf("testTUI", ok)]
    /\ UNCHANGED <<file, userEnv, hist, installed, world, probe, oll, spk, clock, env,
                   mut, disk>>

\* Step 4 of RunPhase4, and the verification on its already-complete path,
\* where a failure is only a warning: VerifyTUIComponents.
RunPhase4_VerifyTUIComponents ==
    /\ run.pc \in {"components", "componentsOnly"}
    /\ LET ok == IsPhase4Complete(env.home, env.tuiBin, env.tuiConf)
       IN  run' = [run EXCEPT
                     !.pc = AfterLast(4, ok),
                     !.trace = Append(@, Step("components", ok)),
                     !.err = IF run.pc = "components" THEN ErrOf("components", ok)
                             ELSE "",
                     !.report = IF ok /\ run.pc = "components" THEN "Complete"
                                ELSE @]
    /\ UNCHANGED <<file, userEnv, hist, installed, world, probe, oll, spk, clock, env,
                   mut, disk>>

\* The environment: the Ollama service goes away, or a TUI file is removed.
Degrade ==
    /\ run.pc = "idle"
    /\ \/ env.http = "200" /\ env' = [env EXCEPT !.http = "refused"]
       \/ env.tuiBin = "ok" /\ env' = [env EXCEPT !.tuiBin = "missing"]
    /\ UNCHANGED <<file, userEnv, hist, installed, run, world, probe, oll, spk, clock,
                   mut, disk>>

PhaseInit ==
    /\ file = testConfig
    /\ userEnv = "bob"
    /\ hist = <<>>
    /\ installed = {}
    /\ run = RunIdle
    /\ world = WorldInit
    /\ probe = ProbeIdle
    /\ oll = OllIdle
    /\ clock = ClockIdle
    /\ env \in {[EnvIdle EXCEPT !.home = h] : h \in {"ok", "err"}}
    /\ mut = MutIdle
    /\ disk = DiskIdle
    /\ spk = SpkIdle

PhaseNext ==
    \/ RunPhase1_Probe
    \/ RunPhase2_Probe
    \/ RunPhase3_Probe
    \/ RunPhase4_Probe
    \/ RunPhase_Mutate
    \/ RunPhase_Apply
    \/ RunPhase1_Verify
    \/ RunPhase2_StartOllamaService
    \/ RunPhase2_TestOllamaAPI
    \/ RunPhase2_DownloadModel
    \/ RunPhase2_VerifyModelIntegrity
    \/ RunPhase3_InstallJamieVoice
    \/ RunPhase3_ListAvailableVoices
    \/ RunPhase3_CreateVoiceConfig
    \/ RunPhase3_TestVoiceOutput
    \/ RunPhase4_CreateTUIConfig
    \/ RunPhase4_BuildTUIBinary
    \/ RunPhase4_TestTUI
    \/ RunPhase4_VerifyTUIComponents
    \/ Return
    \/ Degrade

PhaseSpec == PhaseInit /\ [][PhaseNext]_vars

-----------------------------------------------------------------------------
(* The file specification: the files that are created unless they exist *)

OthersOfDisk == <<file, userEnv, hist, installed, run, world, probe, oll, spk,
                 clock, env, mut>>

\* What can happen to a call on a file with the given content.  A file that
\* exists lies in a directory that exists under a home directory that is
\* known, so os.UserHomeDir, os.MkdirAll and os.Stat succeed; for a missing
\* file the directory may be impossible to create, the file impossible to
\* open, or the write may fail part-way.
CreateIOs(text) ==
    IF text # "" THEN {"ok"} ELSE {"ok", "mkdirErr", "openErr", "writeErr"}

\* CreateIfAbsent writing the default content whether the file exists or not.
CreateIfAbsent_Overwrite(text, io) ==
    [text |-> "default", err |-> "", wrote |-> TRUE]

\* The common body of CreateVoiceConfig, CreateTUIConfig and
\* CreateOllamaLaunchAgent: os.MkdirAll of the directory, return nil when
\* os.Stat finds the file, else os.WriteFile of the default content.
CreateIfAbsent(text, io) ==
    IF io = "mkdirErr" THEN [text |-> text, err |-> "mkdir", wrote |-> FALSE]
    ELSE IF text # "" THEN [text |-> text, err |-> "", wrote |-> FALSE]
    ELSE IF io = "openErr" THEN [text |-> "", err |-> "write", wrote |-> TRUE]
    ELSE IF io = "writeErr" THEN [text |-> "partial", err |-> "write", wrote |-> TRUE]
    ELSE [text |-> "default", err |-> "", wrote |-> TRUE]

\* The state of the files after a call of the function that creates t.
Created(t, o) ==
    [text |-> [disk.text EXCEPT ![t] = o.text],
     last |-> [fn |-> t, err |-> o.err, before |-> disk.text[t],
               wrote |-> o.wrote]]

CreateVoiceConfig ==
    /\ \E io \in CreateIOs(disk.text["voice.conf"]) :
          disk' = Created("voice.conf", CreateIfAbsent(disk.text["voice.conf"], io))
    /\ UNCHANGED OthersOfDisk

CreateTUIConfig ==
    /\ \E io \in CreateIOs(disk.text["tui.conf"]) :
          disk' = Created("tui.conf", CreateIfAbsent(disk.text["tui.conf"], io))
    /\ UNCHANGED OthersOfDisk

\* CreateOllamaLaunchAgent also needs the home directory, and the ollama
\* binary on the PATH when it has to write the plist.
CreateOllamaLaunchAgent ==
    /\ \E io \in CreateIOs(disk.text["plist"])
                    \cup (IF disk.text["plist"] = "" THEN {"homeErr"} ELSE {}),
          look \in BOOLEAN :
          disk' = IF io = "homeErr"
                  THEN Created("plist", [text |-> "", err |-> "home",
                                         wrote |-> FALSE])
                  ELSE IF disk.text["plist"] = "" /\ io # "mkdirErr" /\ ~look
                  THEN Created("plist", [text |-> "", err |-> "lookPath",
                                         wrote |-> FALSE])
                  ELSE Created("plist", CreateIfAbsent(disk.text["plist"], io))
    /\ UNCHANGED OthersOfDisk

\* The user edits a file that exists, or removes it.
UserEdits ==
    /\ \E t \in Targets, new \in {"edited", ""} :
          /\ disk.text[t] # ""
          /\ disk' = [text |-> [disk.text EXCEPT ![t] = new],
                      last |-> DiskIdle.last]
    /\ UNCHANGED OthersOfDisk

FilesInit ==
    /\ file = DefaultNixDarwinConfig
    /\ userEnv = "bob"
    /\ hist = <<>>
    /\ installed = {}
    /\ run = RunIdle
    /\ world = WorldInit
    /\ probe = ProbeIdle
    /\ oll = OllIdle
    /\ clock = ClockIdle
    /\ env = EnvIdle
    /\ spk = SpkIdle
    /\ mut = MutIdle
    /\ disk = DiskIdle

FilesNext ==
    \/ CreateVoiceConfig
    \/ CreateTUIConfig
    \/ CreateOllamaLaunchAgent
    \/ UserEdits

FilesSpec == FilesInit /\ [][FilesNext]_vars

-----------------------------------------------------------------------------
(* The polling specification: StartOllamaService *)

\* for i := 0; i < 30; i++
MaxAttempts == 30

\* LoopContinues admitting one iteration too many.
LoopContinues_OffByOne(i) == i <= MaxAttempts

\* The loop condition i < 30.
LoopContinues(i) == i < MaxAttempts

\* IsOllamaRunning: the GET returns without error and with status 200.
IsOllamaRunning(up) == up

\* AfterPoll going on polling whatever the probe answered.
AfterPoll_Ignore(running) == "loop"

\* if IsOllamaRunning() { ... return nil }: a positive probe returns, a
\* negative one goes to the next iteration.
AfterPoll(running) == IF running THEN "done" ELSE "loop"

\* if IsOllamaRunning() { return nil } at the start of StartOllamaService.
StartOllamaService_Check ==
    /\ oll.pc = "idle"
    /\ oll' = IF IsOllamaRunning(oll.up)
              THEN [oll EXCEPT !.pc = "done", !.result = "running"]
              ELSE [oll EXCEPT !.pc = "agent"]
    /\ UNCHANGED <<file, userEnv, hist, installed, run, world, probe, spk, clock, env,
                   mut, disk>>

\* CreateOllamaLaunchAgent() succeeds or fails.
StartOllamaService_CreateAgent ==
    /\ oll.pc = "agent"
    /\ \E ok \in BOOLEAN :
          oll' = IF ok THEN [oll EXCEPT !.pc = "load"]
                 ELSE [oll EXCEPT !.pc = "done", !.result = "agentErr"]
    /\ UNCHANGED <<file, userEnv, hist, installed, run, world, probe, spk, clock, env,
                   mut, disk>>

\* os.UserHomeDir(), launchctl unload (result ignored) and launchctl load.
StartOllamaService_Load ==
    /\ oll.pc = "load"
    /\ \E io \in {"ok", "homeErr", "loadErr"} :
          oll' = IF io = "ok" THEN [oll EXCEPT !.pc = "loop", !.i = 0]
                 ELSE [oll EXCEPT !.pc = "done", !.result = io]
    /\ UNCHANGED <<file, userEnv, hist, installed, run, world, probe, spk, clock, env,
                   mut, disk>>

\* The loop is entered once more: time.Sleep(1 * time.Second).
StartOllamaService_Sleep ==
    /\ oll.pc = "loop"
    /\ LoopContinues(oll.i)
    /\ oll' = [oll EXCEPT !.pc = "probe", !.sleeps = @ + 1]
    /\ UNCHANGED <<file, userEnv, hist, installed, run, world, probe, spk, clock, env,
                   mut, disk>>

\* The probe of one iteration.
StartOllamaService_Probe ==
    /\ oll.pc = "probe"
    /\ LET running == IsOllamaRunning(oll.up)
       IN  oll' = [oll EXCEPT !.pc = AfterPoll(running),
                              !.probes = @ + 1,
                              !.hits = IF running THEN @ + 1 ELSE @,
                              !.i = IF AfterPoll(running) = "done" THEN @ ELSE @ + 1,
                              !.result = IF AfterPoll(running) = "done"
                                         THEN "started" ELSE @]
    /\ UNCHANGED <<file, userEnv, hist, installed, run, world, probe, spk, clock, env,
                   mut, disk>>

\* The loop is left: "ollama service failed to start within 30 seconds".
StartOllamaService_Timeout ==
    /\ oll.pc = "loop"
    /\ ~LoopContinues(oll.i)
    /\ oll' = [oll EXCEPT !.pc = "done", !.result = "timeout"]
    /\ UNCHANGED <<file, userEnv, hist, installed, run, world, probe, spk, clock, env,
                   mut, disk>>

\* The environment: the Ollama API starts answering.
ServiceUp ==
    /\ oll.pc # "done" /\ ~oll.up
    /\ oll' = [oll EXCEPT !.up = TRUE]
    /\ UNCHANGED <<file, userEnv, hist, installed, run, world, probe, spk, clock, env,
                   mut, disk>>

\* The environment: the Ollama API stops answering.
ServiceDown ==
    /\ oll.pc # "done" /\ oll.up
    /\ oll' = [oll EXCEPT !.up = FALSE]
    /\ UNCHANGED <<file, userEnv, hist, installed, run, world, probe, spk, clock, env,
                   mut, disk>>

PollInit ==
    /\ file = DefaultNixDarwinConfig
    /\ userEnv = "bob"
    /\ hist = <<>>
    /\ installed = PackageSet
    /\ run = RunIdle
    /\ world = WorldInit
    /\ probe = ProbeIdle
    /\ oll = OllIdle
    /\ clock = ClockIdle
    /\ env = EnvIdle
    /\ mut = MutIdle
    /\ disk = DiskIdle
    /\ spk = SpkIdle

PollNext ==
    \/ StartOllamaService_Check
    \/ StartOllamaService_CreateAgent
    \/ StartOllamaService_Load
    \/ StartOllamaService_Sleep
    \/ StartOllamaService_Probe
    \/ StartOllamaService_Timeout
    \/ ServiceUp
    \/ ServiceDown

PollSpec == PollInit /\ [][PollNext]_vars

\* The goroutine that runs StartOllamaService is scheduled: a sleep ends, a
\* probe returns (the HTTP client has a 2 second timeout), the loop exit is
\* taken.  Nothing is assumed of the environment.
FairPollSpec ==
    /\ PollSpec
    /\ WF_vars(StartOllamaService_Sleep)
    /\ WF_vars(StartOllamaService_Probe)
    /\ WF_vars(StartOllamaService_Timeout)

-----------------------------------------------------------------------------
(* The Speaker of internal/voice: Speak, SpeakSync, processQueue, Close *)

Others == <<file, userEnv, hist, installed, run, world, probe, oll, clock, env,
           mut, disk>>

\* An event of the worker's log.
Ev(e, m) == [e |-> e, m |-> m]

\* The configurations a Speaker is created with.
Configs ==
    {DefaultConfig,
     [DefaultConfig EXCEPT !.Enabled = FALSE],
     [DefaultConfig EXCEPT !.QuietHours = TRUE]}

\* isQuietHours without the window that spans midnight.
isQuietHours_NoWrap(start, end, hour) == hour >= start /\ hour < end

\* isQuietHours(start, end), hour being time.Now().Hour().
isQuietHours(start, end, hour) ==
    IF start > end
    THEN hour >= start \/ hour < end
    ELSE hour >= start /\ hour < end

\* speakNow that says nothing while the Speaker is disabled.
speakNow_Gated(config, hour) ==
    IF ~config.Enabled THEN "skip"
    ELSE IF config.QuietHours
            /\ isQuietHours(config.QuietStart, config.QuietEnd, hour)
    THEN "skip" ELSE "say"

\* The head of speakNow: "skip" when quiet hours are enabled and the current
\* hour is in the window, else "say" (the say command is run).
speakNow(config, hour) ==
    IF config.QuietHours /\ isQuietHours(config.QuietStart, config.QuietEnd, hour)
    THEN "skip" ELSE "say"

\* Whether speakNow skips the message, for each hour time.Now() may report
\* among hours.
QuietNow(config, hours) == {speakNow(config, h) = "skip" : h \in hours}

\* AfterQuiet that puts the message back at the end of the queue.
AfterQuiet_Requeue(rest, m) == Append(rest, m)

\* The queue after a message was skipped in quiet hours: speakNow has
\* returned nil and the message is gone.
AfterQuiet(rest, m) == rest

\* TrySend without the capacity of the channel.
TrySend_Unbounded(queue, m) == Append(queue, m)

\* TrySend that makes room by discarding the oldest message.
TrySend_DropOldest(queue, m) ==
    IF Len(queue) < QueueCapacity THEN Append(queue, m)
    ELSE Append(Tail(queue), m)

\* The select of Speak: the send if the channel has room, else the default
\* branch, which drops the message.
TrySend(queue, m) ==
    IF Len(queue) < QueueCapacity THEN Append(queue, m) ELSE queue

\* Speak(message), at most limit calls in all.
Speak(limit) ==
    /\ spk.calls < limit
    /\ LET m == spk.calls + 1
       IN  spk' = IF ~spk.config.Enabled
                  THEN [spk EXCEPT !.calls = m]
                  ELSE [spk EXCEPT !.calls = m,
                                   !.queue = TrySend(@, m),
                                   !.dropped = IF TrySend(spk.queue, m) = spk.queue
                                               THEN @ \cup {m} ELSE @]
    /\ UNCHANGED Others

\* StopReady that does not wait for the stop channel to be closed.
StopReady_Always(stop) == TRUE

\* case <-s.stop is ready once the channel is closed.
StopReady(stop) == stop

\* SelectReady that takes the stop branch only on an empty queue.
SelectReady_DrainFirst(queue, stop) ==
    IF queue # <<>> THEN {"msg"} ELSE IF StopReady(stop) THEN {"stop"} ELSE {}

\* The branches of the worker's select that can proceed; Go picks one of
\* them at random.
SelectReady(queue, stop) ==
    (IF queue # <<>> THEN {"msg"} ELSE {})
        \cup (IF StopReady(stop) THEN {"stop"} ELSE {})

\* Receive that takes the newest message.
Receive_Newest(queue) ==
    [m |-> queue[Len(queue)], rest |-> SubSeq(queue, 1, Len(queue) - 1)]

\* Receive that leaves the message in the channel.
Receive_Peek(queue) == [m |-> Head(queue), rest |-> queue]

\* msg := <-s.queue: the oldest message, which leaves the channel.
Receive(queue) == [m |-> Head(queue), rest |-> Tail(queue)]

\* AfterReceive that leaves the loop when speakNow skipped the message.
AfterReceive_Return(quiet) == IF quiet THEN "stopped" ELSE "speaking"

\* Where processQueue is after the receive: inside the say command, or, the
\* message fell in quiet hours and speakNow returned nil, at its select again.
AfterReceive(quiet) == IF quiet THEN "select" ELSE "speaking"

\* AfterSpeak that leaves the loop on an error.
AfterSpeak_StopOnError(err) == IF err = "nil" THEN "select" ELSE "stopped"

\* Where processQueue is after speakNow returned err: the error is printed
\* and the loop goes on with its select.
AfterSpeak(err) == "select"

\* processQueue receives the oldest message and enters speakNow, which
\* returns at once in quiet hours and otherwise runs the say command.
\* hours are the hours time.Now() may report at this moment.
Worker_Dequeue(hours) ==
    /\ spk.worker = "select"
    /\ "msg" \in SelectReady(spk.queue, spk.stop)
    /\ \E quiet \in QuietNow(spk.config, hours) :
          LET m == Receive(spk.queue).m
              rest == Receive(spk.queue).rest
          IN  spk' = [spk EXCEPT
                        !.queue = IF quiet THEN AfterQuiet(rest, m) ELSE rest,
                        !.handled = Append(@, m),
                        !.worker = AfterReceive(quiet),
                        !.log = Append(@, IF quiet THEN Ev("skip", m)
                                                   ELSE Ev("start", m))]
    /\ UNCHANGED Others

\* The say command of the worker returns one of results, nil or an error;
\* the worker prints an error and goes back to its select.
Worker_Finish(results) ==
    /\ spk.worker = "speaking"
    /\ \E err \in results :
          spk' = [spk EXCEPT
                    !.worker = AfterSpeak(err),
                    !.log = Append(@, Ev(IF err = "nil" THEN "end" ELSE "fail",
                                         spk.handled[Len(spk.handled)]))]
    /\ UNCHANGED Others

\* processQueue takes the stop branch and returns (wg.Done).
Worker_Stop ==
    /\ spk.worker = "select"
    /\ "stop" \in SelectReady(spk.queue, spk.stop)
    /\ spk' = [spk EXCEPT !.worker = "stopped"]
    /\ UNCHANGED Others

\* OnceRuns that runs the function on every call.
OnceRuns_Always(once) == TRUE

\* closeOnce.Do runs its function for the first caller only.
OnceRuns(once) == once = "fresh"

\* WorkerDone that does not wait for the worker.
WorkerDone_NoWait(worker) == TRUE

\* wg.Wait returns once processQueue has returned.
WorkerDone(worker) == worker = "stopped"

\* Close is called: the first caller closes the stop channel and waits for
\* the worker, a caller that arrives meanwhile waits for the first, a
\* later one returns at once.  With noted, the number of Speak calls that
\* preceded the first Close is kept for the properties that speak of it.
Close_Call(c, noted) ==
    /\ spk.closers[c] = "idle"
    /\ spk' =
         IF OnceRuns(spk.once)
         THEN [spk EXCEPT !.stop = TRUE,
                          !.stops = IF @ < 2 THEN @ + 1 ELSE @,
                          !.once = "running",
                          !.closers[c] = "waiting",
                          !.calledAt = IF noted /\ @ = -1 THEN spk.calls
                                       ELSE @,
                          !.busyAt =
                             IF noted /\ @ = -1
                             THEN IF spk.worker = "speaking"
                                  THEN spk.handled[Len(spk.handled)] ELSE 0
                             ELSE @]
         ELSE IF spk.once = "running"
         THEN [spk EXCEPT !.closers[c] = "blocked"]
         ELSE [spk EXCEPT !.closers[c] = "returned"]
    /\ UNCHANGED Others

\* wg.Wait returns, and with it Do and the first Close.
Close_Wait(c) ==
    /\ spk.closers[c] = "waiting"
    /\ WorkerDone(spk.worker)
    /\ spk' = [spk EXCEPT !.once = "done", !.closers[c] = "returned"]
    /\ UNCHANGED Others

\* A caller that waited for the first Do returns without running anything.
Close_Unblock(c) ==
    /\ spk.closers[c] = "blocked"
    /\ spk.once = "done"
    /\ spk' = [spk EXCEPT !.closers[c] = "returned"]
    /\ UNCHANGED Others

\* A caller whose Close has returned goes on, and may call Close again.
Caller_Resume(c) ==
    /\ spk.closers[c] = "returned"
    /\ spk' = [spk EXCEPT !.closers[c] = "idle"]
    /\ UNCHANGED Others

\* SyncResult with the error of the say command swallowed.
SyncResult_Swallow(err) == "nil"

\* return s.speakNow(message): SpeakSync returns what speakNow returns.
SyncResult(err) == err

\* SpeakSync(message): nil at once when disabled, else speakNow in the
\* caller's goroutine, which returns nil at once in quiet hours.
SpeakSync_Begin ==
    /\ spk.sync.pc = "idle"
    /\ \E quiet \in QuietNow(spk.config, Hours) :
          spk' = IF ~spk.config.Enabled \/ quiet
                 THEN [spk EXCEPT !.sync = [pc |-> "idle", result |-> "nil",
                                            ran |-> FALSE, say |-> ""]]
                 ELSE [spk EXCEPT !.sync = [pc |-> "speaking", result |-> "",
                                            ran |-> TRUE, say |-> ""]]
    /\ UNCHANGED Others

\* The say command of SpeakSync returns and SpeakSync returns its error.
SpeakSync_End ==
    /\ spk.sync.pc = "speaking"
    /\ \E err \in {"nil", "err"} :
          spk' = [spk EXCEPT !.sync = [pc |-> "idle", result |-> SyncResult(err),
                                       ran |-> TRUE, say |-> err]]
    /\ UNCHANGED Others

\* s.mu.Lock() can be taken: no goroutine holds the lock in either mode.
MayLock(mu) == mu.w = "" /\ mu.r = {}

\* SetEnabled that cannot switch the Speaker off.
SetEnabled_AlwaysOn(config, on) == [config EXCEPT !.Enabled = TRUE]

\* s.config.Enabled = on
SetEnabled(config, on) == [config EXCEPT !.Enabled = on]

\* Enable(): the flag is set under the write lock.
Enable ==
    /\ MayLock(spk.mu)
    /\ spk' = [spk EXCEPT !.config = SetEnabled(@, TRUE)]
    /\ UNCHANGED Others

\* Disable(): the flag is cleared under the write lock.
Disable ==
    /\ MayLock(spk.mu)
    /\ spk' = [spk EXCEPT !.config = SetEnabled(@, FALSE),
                          !.disabledAt = [calls |-> spk.calls,
                                          handled |-> Len(spk.handled)]]
    /\ UNCHANGED Others

SpeakerInit ==
    /\ file = DefaultNixDarwinConfig
    /\ userEnv = "bob"
    /\ hist = <<>>
    /\ installed = {}
    /\ run = RunIdle
    /\ world = WorldInit
    /\ probe = ProbeIdle
    /\ oll = OllIdle
    /\ clock = ClockIdle
    /\ env = EnvIdle
    /\ mut = MutIdle
    /\ disk = DiskIdle
    /\ spk \in {NewSpeaker(c) : c \in Configs}

SpeakerNext ==
    \/ Speak(MaxSpeaks)
    \/ Worker_Dequeue(Hours)
    \/ Worker_Finish({"nil", "err"})
    \/ Worker_Stop
    \/ \E c \in Callers : Close_Call(c, TRUE)
    \/ \E c \in Callers : Close_Wait(c)
    \/ \E c \in Callers : Close_Unblock(c)
    \/ \E c \in Callers : Caller_Resume(c)
    \/ SpeakSync_Begin
    \/ SpeakSync_End

SpeakerSpec == SpeakerInit /\ [][SpeakerNext]_vars

\* The worker goroutine is scheduled and the say command terminates; Go's
\* select picks among the ready branches at random, so a branch that stays
\* ready is taken in the end.  The callers' goroutines are scheduled once
\* they are inside Close.  Nothing is assumed of when Speak, SpeakSync or
\* Close are called.
FairSpeakerSpec ==
    /\ SpeakerSpec
    /\ WF_vars(Worker_Dequeue(Hours))
    /\ WF_vars(Worker_Finish({"nil", "err"}))
    /\ SF_vars(Worker_Stop)
    /\ \A c \in Callers : WF_vars(Close_Wait(c))
    /\ \A c \in Callers : WF_vars(Close_Unblock(c))

\* The queue specification: a default Speaker on a machine whose say command
\* works, callers that fill the queue past its capacity, the worker, and one
\* caller of Close.
QueueInit ==
    /\ file = DefaultNixDarwinConfig
    /\ userEnv = "bob"
    /\ hist = <<>>
    /\ installed = {}
    /\ run = RunIdle
    /\ world = WorldInit
    /\ probe = ProbeIdle
    /\ oll = OllIdle
    /\ clock = ClockIdle
    /\ env = EnvIdle
    /\ mut = MutIdle
    /\ disk = DiskIdle
    /\ spk = NewSpeaker(DefaultConfig)

QueueNext ==
    \/ Speak(QueueCapacity + MaxExtra)
    \/ Worker_Dequeue(Hours)
    \/ Worker_Finish({"nil"})
    \/ Worker_Stop
    \/ Close_Call("main", FALSE)
    \/ Close_Wait("main")

QueueSpec == QueueInit /\ [][QueueNext]_vars

\* The gate specification: a Speaker without quiet hours that is switched
\* off and on while messages are sent and announced.
GateInit ==
    /\ file = DefaultNixDarwinConfig
    /\ userEnv = "bob"
    /\ hist = <<>>
    /\ installed = {}
    /\ run = RunIdle
    /\ world = WorldInit
    /\ probe = ProbeIdle
    /\ oll = OllIdle
    /\ clock = ClockIdle
    /\ env = EnvIdle
    /\ mut = MutIdle
    /\ disk = DiskIdle
    /\ spk \in {NewSpeaker(SetEnabled(DefaultConfig, on)) : on \in BOOLEAN}

GateNext ==
    \/ Speak(MaxSpeaks)
    \/ Enable
    \/ Disable
    \/ Worker_Dequeue(Hours)
    \/ Worker_Finish({"nil"})
    \/ SpeakSync_Begin
    \/ SpeakSync_End

GateSpec == GateInit /\ [][GateNext]_vars

\* A configuration that differs from the default one in every field.
NightConfig ==
    [Enabled |-> FALSE, QuietHours |-> TRUE, QuietStart |-> 1, QuietEnd |-> 5]

\* The assignment of a Config is a copy of several machine words, which is
\* not one atomic step: first the words of Enabled and QuietHours ...
CopyHead(dst, src) ==
    [dst EXCEPT !.Enabled = src.Enabled, !.QuietHours = src.QuietHours]

\* ... and then the words of QuietStart and QuietEnd.
CopyRest(dst, src) ==
    [dst EXCEPT !.QuietStart = src.QuietStart, !.QuietEnd = src.QuietEnd]

\* RLock that does not wait for the writer.
MayRLock_NoLock(mu) == TRUE

\* s.mu.RLock() returns while no goroutine holds the write lock.
MayRLock(mu) == mu.w = ""

\* UpdateConfig(config): s.mu.Lock().
UpdateConfig_Lock(c, config) ==
    /\ spk.ops[c].pc = "idle"
    /\ MayLock(spk.mu)
    /\ spk' = [spk EXCEPT !.mu.w = c,
                          !.given = @ \cup {config},
                          !.ops[c] = [OpIdle EXCEPT !.pc = "copy",
                                                    !.op = "UpdateConfig",
                                                    !.arg = config]]
    /\ UNCHANGED Others

\* UpdateConfig: s.config = config, its first words.
UpdateConfig_Copy(c) ==
    /\ spk.ops[c].pc = "copy"
    /\ spk.ops[c].op = "UpdateConfig"
    /\ spk' = [spk EXCEPT !.config = CopyHead(@, spk.ops[c].arg),
                          !.ops[c].pc = "rest"]
    /\ UNCHANGED Others

\* UpdateConfig: the rest of the assignment and the deferred s.mu.Unlock().
UpdateConfig_Unlock(c) ==
    /\ spk.ops[c].pc = "rest"
    /\ spk.ops[c].op = "UpdateConfig"
    /\ spk' = [spk EXCEPT !.config = CopyRest(@, spk.ops[c].arg),
                          !.mu.w = "",
                          !.ops[c] = OpIdle]
    /\ UNCHANGED Others

\* GetConfig(), and the head of speakNow in the worker: s.mu.RLock().
GetConfig_RLock(c) ==
    /\ spk.ops[c].pc = "idle"
    /\ MayRLock(spk.mu)
    /\ spk' = [spk EXCEPT !.mu.r = @ \cup {c},
                          !.ops[c] = [OpIdle EXCEPT
                                         !.pc = "copy",
                                         !.op = IF c = "worker" THEN "speakNow"
                                                ELSE "GetConfig",
                                         !.got = DefaultConfig,
                                         !.at = spk.config]]
    /\ UNCHANGED Others

\* GetConfig: the copy of s.config, its first words.
GetConfig_Copy(c) ==
    /\ spk.ops[c].pc = "copy"
    /\ spk.ops[c].op \in {"GetConfig", "speakNow"}
    /\ spk' = [spk EXCEPT !.ops[c].got = CopyHead(@, spk.config),
                          !.ops[c].pc = "rest"]
    /\ UNCHANGED Others

\* GetConfig: the rest of the copy and s.mu.RUnlock(); the caller holds the
\* copy.
GetConfig_RUnlock(c) ==
    /\ spk.ops[c].pc = "rest"
    /\ spk.ops[c].op \in {"GetConfig", "speakNow"}
    /\ spk' = [spk EXCEPT !.ops[c].got = CopyRest(@, spk.config),
                          !.ops[c].pc = "ret",
                          !.mu.r = @ \ {c}]
    /\ UNCHANGED Others

\* IsEnabled(): one word read under the read lock.
IsEnabled(c) ==
    /\ spk.ops[c].pc = "idle"
    /\ MayRLock(spk.mu)
    /\ spk' = [spk EXCEPT !.ops[c] = [OpIdle EXCEPT
                                         !.pc = "ret",
                                         !.op = "IsEnabled",
                                         !.got = CopyHead(DefaultConfig,
                                                          spk.config),
                                         !.at = spk.config]]
    /\ UNCHANGED Others

\* The caller goes on with what the method returned.
Config_Return(c) ==
    /\ spk.ops[c].pc = "ret"
    /\ spk' = [spk EXCEPT !.ops[c] = OpIdle]
    /\ UNCHANGED Others

\* The configuration specification: callers that read, replace and toggle
\* the configuration of one Speaker while its worker reads it.
ConfigInit ==
    /\ file = DefaultNixDarwinConfig
    /\ userEnv = "bob"
    /\ hist = <<>>
    /\ installed = {}
    /\ run = RunIdle
    /\ world = WorldInit
    /\ probe = ProbeIdle
    /\ oll = OllIdle
    /\ clock = ClockIdle
    /\ env = EnvIdle
    /\ mut = MutIdle
    /\ disk = DiskIdle
    /\ spk \in {NewSpeaker(c) : c \in {DefaultConfig, NightConfig}}

ConfigNext ==
    \/ \E c \in Callers, config \in {DefaultConfig, NightConfig} :
          UpdateConfig_Lock(c, config)
    \/ \E c \in Callers : UpdateConfig_Copy(c)
    \/ \E c \in Callers : UpdateConfig_Unlock(c)
    \/ \E c \in Readers : GetConfig_RLock(c)
    \/ \E c \in Readers : GetConfig_Copy(c)
    \/ \E c \in Readers : GetConfig_RUnlock(c)
    \/ \E c \in Callers : IsEnabled(c)
    \/ \E c \in Readers : Config_Return(c)
    \/ Enable
    \/ Disable

ConfigSpec == ConfigInit /\ [][ConfigNext]_vars

\* The delivery specification: a Speaker that is never closed, callers of
\* Speak, Enable and Disable, and the worker, whose say command returns nil
\* or an error.
DeliveryInit ==
    /\ file = DefaultNixDarwinConfig
    /\ userEnv = "bob"
    /\ hist = <<>>
    /\ installed = {}
    /\ run = RunIdle
    /\ world = WorldInit
    /\ probe = ProbeIdle
    /\ oll = OllIdle
    /\ clock = ClockIdle
    /\ env = EnvIdle
    /\ mut = MutIdle
    /\ disk = DiskIdle
    /\ spk \in {NewSpeaker(c) : c \in Configs}

DeliveryNext ==
    \/ Speak(MaxSpeaks)
    \/ Worker_Dequeue(Hours)
    \/ Worker_Finish({"nil", "err"})
    \/ Enable
    \/ Disable

DeliverySpec == DeliveryInit /\ [][DeliveryNext]_vars

\* The worker goroutine is scheduled, and the say command terminates.
\* Nothing is assumed of when Speak is called.
FairDeliverySpec ==
    /\ DeliverySpec
    /\ WF_vars(Worker_Dequeue(Hours))
    /\ WF_vars(Worker_Finish({"nil", "err"}))

-----------------------------------------------------------------------------
(* Claims about the document mutations (DocSpec) *)

\* The last mutation and the one before it were of the same phase and both
\* returned nil.
TwiceInSequence ==
    /\ hist # <<>>
    /\ hist[1].prevPhase = hist[1].phase
    /\ hist[1].prevOk
    /\ hist[1].err = ""

\* C1: when a phase's mutation has run twice in sequence, the second run left
\* the document byte-identical to what the first run left and reported that
\* nothing changed.
C1_IdempotentMutation ==
    TwiceInSequence => hist[1].fileSame /\ hist[1].report = "already"

\* C2: a mutation calls os.WriteFile only if it inserted a section into its
\* buffer, and a run whose buffer ends up equal to the content it read does
\* not write at all.
C2_ZeroWritesOnNoChange ==
    hist # <<>> =>
        /\ hist[1].wrote => hist[1].inserted
        /\ hist[1].bufSame => ~hist[1].wrote

\* Each section marker occurs at most once in document s.
MarkersUnique(s) == \A m \in Markers : Count(s, m) <= 1

\* C3: a document in which each marker occurs at most once is taken by every
\* Phase 1 or Phase 3 mutation to a document in which each marker occurs at
\* most once; so from such a document every sequence of mutations keeps the
\* markers unique.
C3_MarkerUniqueness == [][MarkersUnique(file) => MarkersUnique(file')]_vars

\* Both phases have inserted their sections: all four markers are there,
\* once each, after a mutation that wrote the file.
C3_Witness ==
    /\ hist # <<>> /\ hist[1].err = "" /\ hist[1].wrote /\ hist[1].inserted
    /\ \A m \in Markers : Count(file, m) = 1

-----------------------------------------------------------------------------
(* Claims about the phase runs (Spec) *)

\* The names of the steps a run has executed, in order.
StepNames == [i \in 1..Len(run.trace) |-> run.trace[i].step]

IsPrefix(s, t) == Len(s) <= Len(t) /\ SubSeq(t, 1, Len(s)) = s

\* The steps of a full run of phase p; what follows the apply is the
\* verification (for Phase 3: voice installed, voices listed, voice.conf
\* created, voice tested).
FullOrder(p) ==
    IF p = 1 THEN <<"probe", "mutate", "apply", "verify">>
    ELSE <<"probe", "mutate", "apply", "install", "list", "config", "test">>

\* The steps of a run whose first probe found the phase satisfied.
SatisfiedOrder(p) == IF p = 1 THEN <<"probe", "verify">> ELSE <<"probe", "test">>

Executed(name) == \E i \in 1..Len(run.trace) : run.trace[i].step = name

Failed(name) ==
    \E i \in 1..Len(run.trace) : run.trace[i].step = name /\ ~run.trace[i].ok

\* C4: a run executes probe, mutate, apply, verify in that order, a step
\* starting only after the one before it returned success; a run whose first
\* probe found the phase satisfied reports already-complete and neither
\* mutates the document nor invokes the external apply.
C4_StepOrder ==
    run.phase # 0 =>
        /\ \A i \in 1..(Len(run.trace) - 1) : run.trace[i].ok
        /\ IF run.satisfied
           THEN /\ IsPrefix(StepNames, SatisfiedOrder(run.phase))
                /\ run.report = "AlreadyComplete"
                /\ ~Executed("mutate") /\ ~Executed("apply")
                /\ hist = <<>> /\ run.exit = -1
           ELSE IsPrefix(StepNames, FullOrder(run.phase))

\* A run of Phase 1 went through all four steps and reported completion.
C4_Witness ==
    /\ run.phase = 1 /\ run.pc = "done" /\ run.report = "Complete"
    /\ StepNames = FullOrder(1)

\* C5: a run whose document mutation returned an error returns an error and
\* never invokes the external apply.
C5_MutationFailureAborts ==
    Failed("mutate") =>
        /\ run.pc = "done" /\ run.err = "update"
        /\ ~Executed("apply") /\ run.exit = -1

\* A run ended on a mutation that could not write the document.
C5_Witness ==
    /\ Failed("mutate") /\ run.pc = "done"
    /\ hist # <<>> /\ hist[1].err = "write"

\* C6: when the external apply command exits non-zero the apply step fails,
\* the run returns an error, and neither a verification step nor the
\* phase-complete report is reached.
C6_ApplyFailsClosed ==
    (run.exit # -1 /\ run.exit # 0) =>
        /\ Failed("apply")
        /\ run.pc = "done" /\ run.err = "apply"
        /\ run.report # "Complete"
        /\ \A n \in {"verify", "install", "list", "config", "test"} : ~Executed(n)

\* A run of Phase 3 ended on an apply that exited with status 1.
C6_Witness == run.phase = 3 /\ run.exit = 1 /\ run.pc = "done" /\ Failed("apply")

\* The set of the packages a verification error names.
NamedSet == {run.named[i] : i \in 1..Len(run.named)}

\* C7: RunPhase1 returns nil only if the last verification found every
\* Phase 1 package; a verification that misses a package makes the run return
\* a verification failure naming exactly the packages it missed, once each.
C7_SuccessOnlyWhenVerified ==
    (run.phase = 1 /\ run.pc = "done") =>
        /\ run.err = "" => (Executed("verify") /\ run.seen = PackageSet)
        /\ (Executed("verify") /\ run.seen # PackageSet) =>
              /\ run.err = "verify"
              /\ NamedSet = PackageSet \ run.seen
              /\ Len(run.named) = Cardinality(NamedSet)
              /\ run.report # "Complete"

\* After a successful apply two packages are still missing and the run names
\* them.
C7_Witness ==
    /\ run.phase = 1 /\ run.pc = "done" /\ run.exit = 0
    /\ run.err = "verify" /\ run.named = <<"ollama", "jq">>

-----------------------------------------------------------------------------
(* Claims about the probes (ProbeSpec) *)

\* The place of a package in Phase1Packages.
DeclaredIndex(pkg) == CHOOSE i \in 1..Len(Phase1Packages) : Phase1Packages[i] = pkg

\* C8: GetMissingPackages returns exactly the packages that are not
\* installed, each once, in the declared order, whatever the order in which
\* the environment settled them; it is empty exactly when IsPhase1Complete
\* is true of the same PATH.
C8_MissingDeterminism ==
    probe.called =>
        /\ {probe.missing[i] : i \in 1..Len(probe.missing)} = PackageSet \ probe.at
        /\ \A i, j \in 1..Len(probe.missing) :
              i < j => DeclaredIndex(probe.missing[i]) < DeclaredIndex(probe.missing[j])
        /\ (probe.missing = <<>>) <=> probe.complete

\* jq was settled (removed) before ollama, tmux is installed, and the answer
\* is ollama, go, jq minus what is there: here ollama and jq.
C8_Witness ==
    /\ probe.called /\ probe.at = installed
    /\ installed = {"tmux", "go"}
    /\ Without(Without(probe.order, "tmux"), "go") = <<"jq", "ollama">>
    /\ probe.missing = <<"ollama", "jq">>

-----------------------------------------------------------------------------
(* Claims about StartOllamaService (PollSpec, FairPollSpec) *)

\* The polling loop has returned.
Polled == oll.pc = "done" /\ oll.result \in {"started", "timeout"}

\* C9 as stated: the wait succeeds strictly before the Nth attempt or times
\* out after exactly N attempts, and never probes more than N times.
C9_Original ==
    /\ oll.probes <= MaxAttempts
    /\ Polled =>
          \/ oll.result = "started" /\ oll.probes < MaxAttempts
          \/ oll.result = "timeout" /\ oll.probes = MaxAttempts

\* C9, amended: the wait succeeds on an attempt k with 1 <= k <= N (the Nth
\* included) or times out after exactly N failed attempts; it never probes
\* more than N times and never times out after fewer than N.
C9_ConvergenceBound ==
    /\ oll.probes <= MaxAttempts
    /\ Polled =>
          \/ /\ oll.result = "started"
             /\ 1 <= oll.probes /\ oll.probes <= MaxAttempts
             /\ oll.i = oll.probes - 1
          \/ /\ oll.result = "timeout"
             /\ oll.probes = MaxAttempts /\ oll.i = MaxAttempts /\ oll.hits = 0

\* The service came up just in time: the 30th probe is the positive one.
C9_Witness == Polled /\ oll.result = "started" /\ oll.probes = MaxAttempts

\* What holds of the loop in every state: every probe follows a sleep of its
\* own, a positive probe is the last thing the loop does, and a timeout
\* follows the last failed attempt.
PollingShape ==
    /\ oll.sleeps = oll.probes + (IF oll.pc = "probe" THEN 1 ELSE 0)
    /\ oll.probes = oll.i + oll.hits
    /\ oll.hits <= 1
    /\ oll.hits = 1 => oll.pc = "done" /\ oll.result = "started"
    /\ oll.result = "started" => oll.hits = 1
    /\ oll.result = "timeout" => oll.hits = 0 /\ oll.i = MaxAttempts

\* C10: once the launch agent is loaded the loop probes once per sleep,
\* returns success on the first positive probe without a further sleep or
\* probe, returns the timeout after the last failed attempt, and in every
\* case returns.
C10_BoundedPollingTerminates ==
    /\ []PollingShape
    /\ (oll.pc = "loop") ~> Polled

\* The third probe was the first positive one and the loop returned on it.
C10_Witness ==
    /\ Polled /\ oll.result = "started"
    /\ oll.probes = 3 /\ oll.sleeps = 3 /\ oll.hits = 1

-----------------------------------------------------------------------------
(* Quiet hours: the clock, isQuietHours, and a Speaker that observes them *)

OthersOfClock == <<file, userEnv, hist, installed, run, world, probe, oll, env,
                  mut, disk>>

\* An hour passes.
Tick ==
    /\ clock' = [clock EXCEPT !.hour = (@ + 1) % 24]
    /\ UNCHANGED <<OthersOfClock, spk>>

\* isQuietHours(start, end) is called and answers.
CallIsQuietHours ==
    /\ ~clock.asked
    /\ \E start \in Hours, end \in Hours :
          clock' = [clock EXCEPT
                      !.asked = TRUE, !.start = start, !.end = end,
                      !.at = clock.hour,
                      !.quiet = isQuietHours(start, end, clock.hour)]
    /\ UNCHANGED <<OthersOfClock, spk>>

\* The caller of isQuietHours has used the answer.
UseAnswer ==
    /\ clock.asked
    /\ clock' = [ClockIdle EXCEPT !.hour = clock.hour]
    /\ UNCHANGED <<OthersOfClock, spk>>

HoursInit ==
    /\ file = DefaultNixDarwinConfig
    /\ userEnv = "bob"
    /\ hist = <<>>
    /\ installed = {}
    /\ run = RunIdle
    /\ world = WorldInit
    /\ probe = ProbeIdle
    /\ oll = OllIdle
    /\ spk = SpkIdle
    /\ clock \in {[ClockIdle EXCEPT !.hour = h] : h \in Hours}
    /\ env = EnvIdle
    /\ mut = MutIdle
    /\ disk = DiskIdle

HoursNext == Tick \/ CallIsQuietHours \/ UseAnswer

HoursSpec == HoursInit /\ [][HoursNext]_vars

\* The configurations with quiet hours enabled: the default window, which
\* spans midnight, and one that does not.
QuietConfigs ==
    {[DefaultConfig EXCEPT !.QuietHours = TRUE],
     [DefaultConfig EXCEPT !.QuietHours = TRUE, !.QuietStart = 1, !.QuietEnd = 5]}

\* The quiet specification: a Speaker with quiet hours enabled, callers of
\* Speak, the worker, and the clock the worker reads.
QuietInit ==
    /\ file = DefaultNixDarwinConfig
    /\ userEnv = "bob"
    /\ hist = <<>>
    /\ installed = {}
    /\ run = RunIdle
    /\ world = WorldInit
    /\ probe = ProbeIdle
    /\ oll = OllIdle
    /\ spk \in {NewSpeaker(c) : c \in QuietConfigs}
    /\ clock \in {[ClockIdle EXCEPT !.hour = h] : h \in Hours}
    /\ env = EnvIdle
    /\ mut = MutIdle
    /\ disk = DiskIdle

QuietNext ==
    \/ Tick
    \/ Speak(MaxSpeaks)
    \/ Worker_Dequeue({clock.hour})
    \/ Worker_Finish({"nil", "err"})

QuietSpec == QuietInit /\ [][QuietNext]_vars

-----------------------------------------------------------------------------
(* Claims about the Speaker *)

\* The elements of a sequence.
Range(s) == {s[i] : i \in 1..Len(s)}

\* The sequence 1, 2, .., k.
Upto(k) == [i \in 1..k |-> i]

\* Most Speak calls of the queue specification.
SpeakLimit == QueueCapacity + MaxExtra

NoneCompleted == \A i \in 1..Len(spk.log) : spk.log[i].e \notin {"end", "fail"}

\* The messages accepted so far, in the order the worker meets them.
AcceptedSeq == spk.handled \o spk.queue

\* C12 as stated: with a consumer that completes no announcement, 101
\* Speak calls on a fresh Speaker drop exactly the 101st message and leave
\* the first 100 accepted, in order.
C12_Original ==
    (spk.calls = QueueCapacity + 1 /\ NoneCompleted) =>
        /\ spk.dropped = {QueueCapacity + 1}
        /\ AcceptedSeq = Upto(QueueCapacity)

\* Whether a sequence of numbers is strictly increasing.
Ascending(s) == \A i \in 1..(Len(s) - 1) : s[i] < s[i + 1]

\* C12 amended: with a consumer that completes no announcement, the worker
\* has received r messages, r being 0 or 1; the messages accepted are all
\* those not dropped, in enqueue order, at most 100 + r of them; none of
\* the first 100 is dropped; and the 101st message is dropped exactly when
\* the worker had received nothing at the moment it was sent: it is
\* accepted when the worker was by then inside the first announcement.
C12_OverflowPolicy ==
    /\ [](NoneCompleted =>
            /\ Len(spk.handled) <= 1
            /\ Ascending(AcceptedSeq)
            /\ Range(AcceptedSeq) = (1..spk.calls) \ spk.dropped
            /\ spk.dropped \subseteq (QueueCapacity + 1)..spk.calls
            /\ Len(AcceptedSeq) <= QueueCapacity + Len(spk.handled))
    /\ [][(NoneCompleted /\ spk.calls = QueueCapacity
                /\ spk'.calls = QueueCapacity + 1) =>
            (QueueCapacity + 1 \in spk'.dropped <=> spk.handled = <<>>)]_vars

\* 101 messages went to a Speaker whose worker had received nothing: the
\* 101st was dropped.
C12_Witness ==
    /\ spk.calls = QueueCapacity + 1
    /\ spk.handled = <<>>
    /\ spk.dropped = {QueueCapacity + 1}
    /\ spk.queue = Upto(QueueCapacity)

\* Whether a log event is the worker taking up a message (not finishing one).
IsBegin(ev) == ev.e \in {"start", "skip"}

\* The messages the worker took up, in the order of its log.
Begun == LET b == SelectSeq(spk.log, IsBegin) IN [i \in 1..Len(b) |-> b[i].m]

\* C13: FIFO delivery.  The messages the worker has received, followed by
\* those still buffered, are in enqueue order, so a message is never
\* received before an older accepted one; the worker takes them up in the
\* order it received them; and an announcement that was started has ended
\* before the next message is taken up.
C13_FIFODelivery ==
    /\ Ascending(AcceptedSeq)
    /\ Begun = spk.handled
    /\ \A i \in 1..Len(spk.log) :
          /\ spk.log[i].e = "start" =>
                IF i < Len(spk.log)
                THEN spk.log[i + 1] = Ev("end", spk.log[i].m)
                ELSE spk.worker = "speaking"
          /\ spk.log[i].e = "end" =>
                i > 1 /\ spk.log[i - 1] = Ev("start", spk.log[i].m)

\* Three messages were announced one after the other while later ones were
\* being dropped.
C13_Witness ==
    /\ spk.handled = <<1, 2, 3>>
    /\ spk.log[Len(spk.log)] = Ev("end", 3)
    /\ spk.dropped # {}

\* The executions of speakNow's say command in progress.
InProgress ==
    (IF spk.worker = "speaking" THEN 1 ELSE 0)
        + (IF spk.sync.pc = "speaking" THEN 1 ELSE 0)

\* C14: at most one announcement is in progress on a Speaker.
C14_NoOverlap == InProgress <= 1

\* A caller is inside Close.
InClose(c) == spk.closers[c] \in {"waiting", "blocked"}

\* C15: idempotent shutdown.  The stop channel is closed at most once
\* (a second close would panic) and is closed exactly when Close has been
\* called; a Close called after the first has returned changes nothing of
\* the Speaker; and every call of Close, first or later, concurrent or
\* not, returns.
C15_IdempotentShutdown ==
    /\ [](spk.stops <= 1 /\ (spk.stop <=> spk.stops = 1)
            /\ (spk.stop <=> spk.once # "fresh"))
    /\ [][\A c \in Callers :
            (spk.once = "done" /\ spk.closers[c] = "idle"
                /\ spk'.closers[c] # "idle") =>
            spk' = [spk EXCEPT !.closers[c] = "returned"]]_vars
    /\ \A c \in Callers : InClose(c) ~> (spk.closers[c] = "returned")

\* Two callers closed the Speaker at the same time: the one that closed
\* the stop channel has returned, the other, which waited for it inside
\* Do, is about to return without having closed anything.
C15_Witness ==
    /\ spk.closers["main"] = "returned"
    /\ spk.closers["other"] = "blocked"
    /\ spk.once = "done"
    /\ spk.stops = 1
    /\ spk.calls > 0

\* The messages Speak accepted before Close was first called.
AcceptedBeforeClose ==
    {m \in Range(AcceptedSeq) : m <= spk.calledAt}

\* C16: when Close has returned, every message accepted before Close was
\* called has been received by the worker and its announcement is over.
C16_CloseDrains ==
    spk.once = "done" =>
        /\ AcceptedBeforeClose \subseteq Range(spk.handled)
        /\ spk.worker # "speaking"

\* The worker is at its select with both branches ready.
AtRace == spk.worker = "select" /\ spk.stop /\ spk.queue # <<>>

C18_CloseStopsAcceptance ==
    [][(spk.once = "done" /\ spk'.calls # spk.calls) =>
            spk'.queue = spk.queue]_vars

\* The two states of the worker.
WorkerState(worker) == IF worker = "stopped" THEN "Stopped" ELSE "Running"

\* C19: the worker is Running until Close has raised the stop signal; it
\* goes from Running to Stopped only with the stop signal raised; once
\* Stopped it stays Stopped, receives nothing more from the buffer and
\* announces nothing more.
C19_WorkerStateMachine ==
    /\ [](spk.worker \in {"select", "speaking", "stopped"})
    /\ [](~spk.stop => WorkerState(spk.worker) = "Running")
    /\ [][WorkerState(spk.worker) = "Stopped" =>
            /\ WorkerState(spk'.worker) = "Stopped"
            /\ spk'.handled = spk.handled
            /\ spk'.log = spk.log
            /\ \/ spk'.queue = spk.queue
               \/ spk'.queue = Append(spk.queue, spk'.calls)]_vars
    /\ [][WorkerState(spk'.worker) # WorkerState(spk.worker) =>
            spk.stop /\ WorkerState(spk.worker) = "Running"]_vars

\* The worker stopped after one announcement; the message it left behind
\* and one sent after it had stopped sit in the buffer.
C19_Witness ==
    /\ spk.worker = "stopped"
    /\ spk.log = <<Ev("start", 1), Ev("end", 1)>>
    /\ spk.queue = <<2, 3>>
    /\ spk.calledAt = 2

WindowActive ==
    /\ spk.config.QuietHours
    /\ IF spk.config.QuietStart > spk.config.QuietEnd
       THEN clock.hour >= spk.config.QuietStart \/ clock.hour < spk.config.QuietEnd
       ELSE spk.config.QuietStart <= clock.hour /\ clock.hour < spk.config.QuietEnd

\* C21: quiet-interval suppression is discard.  What the worker does with
\* a message it receives depends on the hour at that moment only: in the
\* quiet window the message leaves the queue, nothing is started, no error
\* is logged and the worker is back at its select; outside it the
\* announcement starts.  A skipped message is never in the queue again and
\* the log never holds another event for it, whatever the hour becomes.
C21_QuietDiscard ==
    /\ [](\A i \in 1..Len(spk.log) :
            spk.log[i].e = "skip" =>
                /\ spk.log[i].m \notin Range(spk.queue)
                /\ \A j \in 1..Len(spk.log) : j # i => spk.log[j].m # spk.log[i].m)
    /\ [][spk'.handled # spk.handled =>
            LET m == Head(spk.queue)
            IN  /\ spk'.handled = Append(spk.handled, m)
                /\ spk'.queue = Tail(spk.queue)
                /\ IF WindowActive
                   THEN /\ spk'.log = Append(spk.log, Ev("skip", m))
                        /\ spk'.worker = "select"
                   ELSE /\ spk'.log = Append(spk.log, Ev("start", m))
                        /\ spk'.worker = "speaking"]_vars

\* The first message was skipped in the quiet window; the window has ended,
\* the second message was announced, and the first is neither in the queue
\* nor announced.
C21_Witness ==
    /\ spk.log = <<Ev("skip", 1), Ev("start", 2), Ev("end", 2)>>
    /\ spk.queue = <<>>
    /\ ~WindowActive

\* The cases the specification names: start, end, hour, answer.
QuietCases ==
    {<<22, 7, 23, TRUE>>, <<22, 7, 3, TRUE>>, <<22, 7, 10, FALSE>>,
     <<1, 5, 2, TRUE>>, <<1, 5, 6, FALSE>>}

\* C22: quiet-window arithmetic.  For all start, end and hour in 0..23 the
\* answer of isQuietHours is TRUE exactly when start <= hour < end if
\* start < end, exactly when hour >= start or hour < end if start > end, and
\* never when start = end; it is as named for the five cases above, and
\* (0,0) and (12,12) are never quiet.
C22_QuietWindowArithmetic ==
    clock.asked =>
        /\ clock.start < clock.end =>
              (clock.quiet <=> (clock.start <= clock.at /\ clock.at < clock.end))
        /\ clock.start > clock.end =>
              (clock.quiet <=> (clock.at >= clock.start \/ clock.at < clock.end))
        /\ clock.start = clock.end => ~clock.quiet
        /\ \A c \in QuietCases :
              (clock.start = c[1] /\ clock.end = c[2] /\ clock.at = c[3]) =>
                  clock.quiet = c[4]
        /\ (clock.start = clock.end /\ clock.start \in {0, 12}) => ~clock.quiet

\* isQuietHours(22, 7) was called at 3 o'clock and answered TRUE.
C22_Witness ==
    /\ clock.asked /\ clock.start = 22 /\ clock.end = 7 /\ clock.at = 3
    /\ clock.quiet


\* C23 (as stated): an announcement failure is never a phase failure: when
\* the say command of the voice test fails, in voice.Test or in SpeakSync, no
\* phase run returns an error because of it.  Step 6 of RunPhase3 returns
\* "voice output test failed" in that case; only the already-complete path
\* downgrades the failure to a warning.
C23_SpeechFailureNeverFailsPhase ==
    run.speech \in {"testFailed", "speakFailed"} => run.err = ""

-----------------------------------------------------------------------------
(* Claims about the placeholder and the inserted sections *)

\* The name declared by the document: the name between the quotes of its
\* first system.primaryUser line, "" when it has no such line.
DeclaredOwner(s) ==
    LET decl == {i \in 1..Len(s) : s[i].k = "primaryUser" /\ s[i].u # "NOQUOTE"}
    IN  IF decl = {} THEN ""
        ELSE s[CHOOSE i \in decl : \A j \in decl : i <= j].u

\* The name the placeholder is to resolve to.
ExpectedName(s, envUser) ==
    IF DeclaredOwner(s) # "" THEN DeclaredOwner(s)
    ELSE IF envUser # "" THEN envUser
    ELSE HomeBase

\* The names the auto-login sections of a document carry.
AutoLoginUsers(s) == {s[i].u : i \in {j \in 1..Len(s) : s[j].k = "autologin"}}

\* C25: when a Phase 1 mutation changes the document and returns nil, the
\* placeholder is resolved to the name of the document's primaryUser
\* declaration if there is one and it is not empty, otherwise to $USER if
\* that is not empty, otherwise to the base name of the home directory: every
\* auto-login section of the new document carries that name, unless it
\* stood in the document before with a name already filled in, and the
\* placeholder is gone unless it is the declared name itself.
C25_ResolutionOrder ==
    [][(file' # file /\ hist'[1].phase = 1 /\ hist'[1].err = "") =>
         /\ AutoLoginUsers(file') \subseteq
                {ExpectedName(file, userEnv)}
                    \cup (AutoLoginUsers(file) \ {Placeholder})
         /\ ExpectedName(file, userEnv) # Placeholder =>
                \A i \in 1..Len(file') : file'[i].u # Placeholder]_vars

\* A document declaring alice was mutated while $USER was bob, and the
\* inserted auto-login section names alice.
C25_Witness ==
    /\ hist # <<>> /\ hist[1].phase = 1 /\ hist[1].err = "" /\ ~hist[1].fileSame
    /\ userEnv = "bob"
    /\ DeclaredOwner(file) = "alice"
    /\ AutoLoginUsers(file) = {"alice"}


\* C26 (as stated): after a Phase 1 mutation that changed the document and
\* returned nil, the document holds no occurrence of the placeholder, for
\* every starting document, the embedded default document included.  The
\* default document declares the placeholder itself as primaryUser, so the
\* placeholder is replaced by itself.
C26_NoPlaceholderSurvives ==
    (hist # <<>> /\ hist[1].phase = 1 /\ hist[1].err = "" /\ ~hist[1].fileSame)
        => \A i \in 1..Len(file) : file[i].u # Placeholder

\* The markers the mutation of a phase owns.
OwnedMarkers(p) ==
    IF p = 1 THEN {MarkerSSH, MarkerAutoLogin, MarkerPhase1} ELSE {MarkerPhase3}

\* C27 (as stated): whenever the document mutation of a phase returns nil,
\* every marker the phase owns is present in the document afterwards.  A
\* document without a closing delimiter, or without the literal package list,
\* is left without the marker and nil is returned all the same.
C27_MutationPostcondition ==
    (hist # <<>> /\ hist[1].err = "")
        => \A m \in OwnedMarkers(hist[1].phase) : Contains(file, m)

\* The positions of the inserted blocks of s, and whether the blocks stand
\* in the order of their insertion (SSH, auto-login, voice) directly before
\* the closing delimiter.
InInsertionOrder(s) ==
    /\ \A m \in {MarkerSSH, MarkerAutoLogin, MarkerPhase3} : Count(s, m) = 1
    /\ \E i \in 1..Len(s) :
         /\ s[i].k = "ssh"
         /\ i + 3 <= Len(s)
         /\ s[i + 1].k = "autologin"
         /\ s[i + 2].k = "voice"
         /\ s[i + 3] = closeBrace

\* C28 (as stated): starting from an empty document and running the phase
\* mutations in order, the document contains each phase's marker exactly once
\* and the inserted blocks stand in the order of their insertion, directly
\* before the closing delimiter.  The empty document has no closing
\* delimiter: both mutations return nil and the document stays empty.
C28_InsertionOrder ==
    [][(/\ file = <<>>
        /\ hist # <<>> /\ hist[1].phase = 1 /\ hist[1].err = ""
        /\ hist[1].fileSame
        /\ hist'[1].phase = 3 /\ hist'[1].err = "")
          => InInsertionOrder(file')]_vars


\* C29 (as stated): when the external apply command fails, the error
\* returned by ApplyConfiguration and by the phase run carries the output of
\* the command.  The output goes to the terminal only; the error carries the
\* exit status.
C29_ApplyFailureCarriesOutput ==
    (run.pc = "done" /\ run.exit > 0 /\ run.err # "")
        => run.attached = run.printed


-----------------------------------------------------------------------------
(* Claims about the state probes *)

\* C30: every state probe returns a boolean in every environment and has no
\* effect on the document or on the state of the system; a binary missing
\* from the PATH, a service that does not answer or answers with a status
\* other than 200, a failing list command and a missing file yield false,
\* and the call is possible in every environment.
C30_ProbesNeverRaise ==
    /\ [](ENABLED CallStateProbes)
    /\ [](env.called =>
            LET a == env.answers
            IN  /\ \A p \in PackageSet : a.pkg[p] \in BOOLEAN
                /\ {a.running, a.model, a.voice, a.p1, a.p2, a.p3, a.p4}
                      \subseteq BOOLEAN
                /\ \A p \in PackageSet : p \notin installed => ~a.pkg[p]
                /\ installed # PackageSet => ~a.p1
                /\ env.http # "200" => ~a.running /\ ~a.p2
                /\ env.list \in {"fail", "hasnot"} => ~a.model /\ ~a.p2
                /\ env.say \in {"fail", "nojamie"} => ~a.voice /\ ~a.p3
                /\ env.voiceConf = "missing" => ~a.p3
                /\ env.home = "err" => ~a.p4
                /\ (env.tuiBin = "missing" \/ env.tuiConf = "missing") => ~a.p4)
    /\ [][CallStateProbes =>
            /\ Inputs(env') = Inputs(env)
            /\ UNCHANGED <<file, userEnv, hist, installed, run, world>>]_vars

\* The probes were called where nothing is there: no binary on the PATH, no
\* answer from the service, failing list and say commands, no home directory
\* and no file; every probe answered false.
C30_Witness ==
    /\ env.called
    /\ installed = {} /\ env.http = "refused" /\ env.list = "fail"
    /\ env.say = "fail" /\ env.home = "err" /\ env.voiceConf = "missing"
    /\ env.tuiBin = "missing" /\ env.tuiConf = "missing"
    /\ ~env.answers.running /\ ~env.answers.model /\ ~env.answers.voice
    /\ ~env.answers.p1 /\ ~env.answers.p2 /\ ~env.answers.p3 /\ ~env.answers.p4
    /\ \A p \in PackageSet : ~env.answers.pkg[p]


-----------------------------------------------------------------------------
(* Claims about the phase runs as units *)

\* The steps of each Run function.
StepsOf(p) ==
    CASE p = 1 -> {"probe", "mutate", "apply", "verify"}
      [] p = 2 -> {"probe", "start", "api", "download", "verifyModel"}
      [] p = 3 -> {"probe", "mutate", "apply", "install", "list", "config", "test"}
      [] p = 4 -> {"probe", "tuiConfig", "build", "testTUI", "components"}
      [] OTHER -> {}

\* The steps a run has executed.
StepsTaken(r) == {r.trace[i].step : i \in 1..Len(r.trace)}

\* C31: an invocation of RunPhaseN runs only phase N: every step it executes
\* is a step of RunPhaseN and its phase never changes before it returns; an
\* error ends that run only (the run returns, and any Run function can be
\* invoked afterwards); RunPhase2 and RunPhase4 never write the configuration
\* document and never invoke the external apply command.
C31_PhasesIndependent ==
    /\ [](StepsTaken(run) \subseteq StepsOf(run.phase))
    /\ [](run.err # "" => run.pc = "done")
    /\ [](run.pc = "idle" =>
            /\ ENABLED RunPhase1_Probe /\ ENABLED RunPhase2_Probe
            /\ ENABLED RunPhase3_Probe /\ ENABLED RunPhase4_Probe)
    /\ [](run.phase \in {2, 4} => run.exit = -1 /\ hist = <<>>)
    /\ [][(run.pc # "idle" /\ run'.pc # "idle") => run'.phase = run.phase]_vars
    /\ [][run'.phase \in {2, 4} => file' = file]_vars

\* A Phase 2 run completed all its steps and returned nil, the document
\* being what it was and no apply having run.
C31_Witness ==
    /\ run.phase = 2 /\ run.pc = "done" /\ run.err = ""
    /\ run.report = "Complete"
    /\ StepsTaken(run) = StepsOf(2)
    /\ file = testConfig /\ run.exit = -1


-----------------------------------------------------------------------------
(* Claims about concurrent runs and the rewrite of the file *)

\* C32: concurrent mutations of the document are not serialized: a process
\* may read the document while the other is between its read and its write,
\* and what it writes is computed from the content it read, whatever the
\* file holds by then; so both can return nil while the section of one of
\* them is lost.
C32_NotSerialized ==
    /\ [](\A p \in Procs : mut[p].pc = "idle" => ENABLED ReadFile(p))
    /\ [][\A p \in Procs :
            (mut[p].pc = "read" /\ mut'[p].pc = "done" /\ mut'[p].err = "")
              => file' \in {file, Mutation(p, mut[p].content, userEnv, "ok", 0).buf}]_vars

\* Both mutations returned nil, each having inserted its sections into what
\* it read, the Phase 3 mutation having read while the Phase 1 mutation was
\* between its read and its write; the document has the SSH section of the
\* Phase 1 mutation and lacks the voice section of the Phase 3 mutation.
C32_Witness ==
    /\ \A p \in Procs : mut[p].pc = "done" /\ mut[p].err = "" /\ mut[p].inserted
    /\ mut[3].during = "read"
    /\ Contains(file, MarkerSSH)
    /\ ~Contains(file, MarkerPhase3)

\* C33 (as stated): the document is rewritten atomically: after a mutation,
\* also one whose write failed, the file holds the complete old document or
\* the complete new one.  os.WriteFile truncates the file and writes in
\* place, so a failed write leaves a prefix of the new document.
C33_AtomicRewrite ==
    [][hist' # <<>> =>
         file' \in {file,
                    Mutation(hist'[1].phase, file, userEnv, "ok", 0).buf}]_vars


-----------------------------------------------------------------------------
(* Claims about the Enabled flag *)

\* The messages Speak neither queued nor dropped on a full queue.
Refused == (1..spk.calls) \ (Range(spk.queue) \cup Range(spk.handled) \cup spk.dropped)

\* C34: while the Enabled flag is false a Speak call leaves the queue (and
\* the worker) as they are, and a SpeakSync call returns nil at once without
\* running the say command; Enable sets the flag, and with the flag set Speak
\* sends its message to the queue and SpeakSync runs the say command.
C34_DisabledIsSilent ==
    /\ [][(spk'.calls # spk.calls /\ ~spk.config.Enabled) =>
            /\ spk'.queue = spk.queue /\ spk'.dropped = spk.dropped
            /\ spk'.handled = spk.handled /\ spk'.log = spk.log
            /\ spk'.worker = spk.worker]_vars
    /\ [][(spk'.calls # spk.calls /\ spk.config.Enabled) =>
            \/ spk'.queue = Append(spk.queue, spk'.calls)
            \/ spk'.calls \in spk'.dropped]_vars
    /\ [][(spk.sync.pc = "idle" /\ spk'.sync # spk.sync) =>
            IF spk.config.Enabled
            THEN spk'.sync.pc = "speaking" /\ spk'.sync.ran
            ELSE /\ spk'.sync.pc = "idle" /\ spk'.sync.result = "nil"
                 /\ ~spk'.sync.ran]_vars
    /\ [][Enable => spk'.config.Enabled]_vars
    /\ [][Disable => ~spk'.config.Enabled]_vars

\* The first message was sent before Disable and queued, the second was sent
\* while the Speaker was disabled and went nowhere, the third was sent after
\* Enable and queued.
C34_Witness ==
    /\ spk.calls = 3 /\ spk.config.Enabled
    /\ spk.disabledAt.calls = 1
    /\ Refused = {2}
    /\ 3 \in Range(spk.queue)

\* C40: the Enabled flag gates enqueueing only: Disable leaves the queue as
\* it is, and the worker announces every message it receives whatever the
\* flag is (the Speaker having no quiet hours, it skips none).
C40_FlagGatesEnqueueOnly ==
    /\ [][Disable => spk'.queue = spk.queue /\ spk'.handled = spk.handled]_vars
    /\ [](\A i \in 1..Len(spk.log) : spk.log[i].e # "skip")
    /\ [][spk'.handled # spk.handled =>
            /\ spk'.worker = "speaking"
            /\ spk'.log = Append(spk.log, Ev("start", Head(spk.queue)))]_vars
    /\ [](spk.queue # <<>> /\ spk.worker = "select" => ENABLED Worker_Dequeue(Hours))

\* The first message was queued while the Speaker was enabled, Disable was
\* called before the worker had received anything, and the worker has since
\* announced the message, the Speaker being disabled still.
C40_Witness ==
    /\ ~spk.config.Enabled
    /\ spk.disabledAt.calls >= 1 /\ spk.disabledAt.handled = 0
    /\ Len(spk.log) >= 2
    /\ spk.log[1] = Ev("start", 1) /\ spk.log[2] = Ev("end", 1)

-----------------------------------------------------------------------------
(* Claims about the configuration (ConfigSpec) *)

\* The whole configurations: one passed to NewSpeaker or to UpdateConfig,
\* with the Enabled flag as Enable and Disable may have left it.
WholeConfigs == {[g EXCEPT !.Enabled = e] : g \in spk.given, e \in BOOLEAN}

\* C36: under every interleaving of GetConfig, IsEnabled, UpdateConfig,
\* Enable and Disable by the callers and the worker's read in speakNow, what
\* a read returns is the configuration the Speaker held when the read took
\* its lock, which is a whole configuration: one passed to NewSpeaker or to
\* an UpdateConfig, but for its Enabled flag; no reader holds the lock while a
\* writer does; and Enable and Disable change no field but Enabled.
C36_ConfigLinearizable ==
    /\ [](\A c \in Readers :
            spk.ops[c].pc = "ret" =>
               IF spk.ops[c].op = "IsEnabled"
               THEN spk.ops[c].got.Enabled = spk.ops[c].at.Enabled
               ELSE /\ spk.ops[c].got = spk.ops[c].at
                    /\ spk.ops[c].got \in WholeConfigs)
    /\ [](spk.mu.w = "" => spk.config \in WholeConfigs)
    /\ [](spk.mu.w # "" => spk.mu.r = {})
    /\ [][(Enable \/ Disable) =>
            spk'.config = [spk.config EXCEPT !.Enabled = spk'.config.Enabled]]_vars

\* A caller's GetConfig has returned the configuration a concurrent
\* UpdateConfig installed, enabled by a later Enable, while the other caller
\* is in the middle of the next UpdateConfig and the worker waits to read.
C36_Witness ==
    /\ spk.given = {DefaultConfig, NightConfig}
    /\ spk.ops["main"].pc = "ret" /\ spk.ops["main"].op = "GetConfig"
    /\ spk.ops["main"].got = [NightConfig EXCEPT !.Enabled = TRUE]
    /\ spk.ops["other"].pc = "rest" /\ spk.ops["other"].op = "UpdateConfig"
    /\ spk.config \notin WholeConfigs

-----------------------------------------------------------------------------
(* Claims about the worker and Close (SpeakerSpec) *)

\* The outcomes of message m in the worker's log.
Outcomes(m) ==
    {spk.log[i].e : i \in {j \in 1..Len(spk.log) :
                             spk.log[j].m = m /\ spk.log[j].e # "start"}}

\* C37: the worker survives an error of an announcement: when the say
\* command returns, with nil or with an error, the worker is at its select
\* again and the queue holds what it held, so the failed message is not
\* sent again (no message is received twice); the worker reaches Stopped
\* from its select only, with the stop channel closed; and after a failure
\* the worker can receive the next queued message.
C37_WorkerSurvivesErrors ==
    /\ [][(spk.worker = "speaking" /\ spk'.worker # "speaking") =>
            /\ spk'.worker = "select"
            /\ spk'.queue = spk.queue
            /\ spk'.handled = spk.handled]_vars
    /\ [][(spk.worker # "stopped" /\ spk'.worker = "stopped") =>
            spk.worker = "select" /\ spk.stop]_vars
    /\ [](\A i, j \in 1..Len(spk.handled) :
            i # j => spk.handled[i] # spk.handled[j])
    /\ [](Range(spk.queue) \cap Range(spk.handled) = {})
    /\ []((/\ spk.log # <<>>
           /\ spk.log[Len(spk.log)].e = "fail"
           /\ spk.worker = "select"
           /\ spk.queue # <<>>) => ENABLED Worker_Dequeue(Hours))

\* The announcement of the first message failed, and the worker has since
\* received and announced the second, the stop channel being open.
C37_Witness ==
    /\ ~spk.stop
    /\ Len(spk.log) = 4
    /\ spk.log[1] = Ev("start", 1) /\ spk.log[2] = Ev("fail", 1)
    /\ spk.log[3] = Ev("start", 2) /\ spk.log[4] = Ev("end", 2)
    /\ spk.worker = "select"

\* C38: Close does not abandon the announcement in progress: while a Close
\* call has returned (the first or a later one, alone or beside another)
\* the worker is Stopped and every announcement the worker started has
\* ended, the one in progress when the stop channel was closed included; the
\* worker leaves an announcement only by the return of the say command.
C38_CloseWaitsForWorker ==
    /\ []((\E c \in Callers : spk.closers[c] = "returned") =>
            /\ spk.worker = "stopped"
            /\ spk.log # <<>> => spk.log[Len(spk.log)].e # "start"
            /\ spk.busyAt > 0 => Outcomes(spk.busyAt) \cap {"end", "fail"} # {})
    /\ [](spk.once = "done" => spk.worker = "stopped")
    /\ [][(spk.worker = "speaking" /\ spk'.worker # "speaking") =>
            /\ Len(spk'.log) = Len(spk.log) + 1
            /\ spk'.log[Len(spk'.log)].m = spk.handled[Len(spk.handled)]
            /\ spk'.log[Len(spk'.log)].e \in {"end", "fail"}]_vars

\* Both callers' Close calls, made while the worker was announcing the first
\* message, have returned, and the announcement has ended.
C38_Witness ==
    /\ \A c \in Callers : spk.closers[c] = "returned"
    /\ spk.busyAt = 1
    /\ Outcomes(1) = {"end"}
    /\ spk.worker = "stopped"

-----------------------------------------------------------------------------
(* Claims about delivery without shutdown (FairDeliverySpec) *)

\* C39: with Close never called, the say command terminating and the worker
\* scheduled, every message Speak put into the queue is in the end received
\* by the worker and announced (the say command returned) or skipped in
\* quiet hours, and once the callers have made their last Speak call the
\* queue becomes empty and stays so.
C39_DeliveryLiveness ==
    /\ \A m \in 1..MaxSpeaks :
          (m \in Range(spk.queue)) ~>
             (m \in Range(spk.handled)
                /\ Outcomes(m) \cap {"end", "fail", "skip"} # {})
    /\ (spk.calls = MaxSpeaks) ~> [](spk.queue = <<>>)

\* Every Speak call was made and accepted, the worker has received them all,
\* skipping one in quiet hours and announcing another, and the queue is
\* empty.
C39_Witness ==
    /\ spk.calls = MaxSpeaks /\ spk.dropped = {}
    /\ Len(spk.handled) = MaxSpeaks
    /\ spk.queue = <<>> /\ spk.worker = "select"
    /\ \E m \in 1..MaxSpeaks : Outcomes(m) = {"skip"}
    /\ \E m \in 1..MaxSpeaks : Outcomes(m) = {"end"}

=============================================================================
